---- MODULE Spec2Model ----
(***************************************************************************)
(* k-hop neighbourhood exploration, node classification, hop aggregation   *)
(* and risk scoring of the blacklist analysis scripts                      *)
(* (src/model/model.py and src/data_analysis/blacklist_anomaly_analyzer.py)*)
(* over a point-in-time snapshot of the graph store.                       *)
(***************************************************************************)
EXTENDS Integers, Sequences, FiniteSets, TLC

\* ------------------------------------------------------------------ bounds

\* Largest max_k_hops a constructed analyzer / scorer is configured with.
MaxHops == 3

\* The nodes of the snapshot.
Nodes == {1, 2, 3, 4}

\* The relationships a snapshot may hold, as <<from, to>>: a chain 1-2-3-4,
\* chords that close cycles through node 1, and a pair of opposite
\* relationships between 1 and 2.
CandidateRelations ==
    {<<1, 2>>, <<2, 1>>, <<2, 3>>, <<3, 1>>, <<3, 4>>, <<4, 2>>}

\* ------------------------------------------------------- program constants

ALL_NODE_LABELS ==
    {"uid", "phone_num", "identity_no", "card_no",
     "device_no", "td_device_id", "remote_ip", "geo_code"}

BLACKLISTABLE_LABELS == {"uid", "phone_num", "identity_no"}

\* A property the node does not have (Cypher null).
NoStatus == "null"
NoCount == -1

\* ------------------------------------------------------------ the snapshot

\* What a node of the store can look like: its first label, status property
\* and associated_uid_count property.
Profile(l, s, c) == [label |-> l, status |-> s, associated_uid_count |-> c]

NodeProfiles ==
    {Profile("uid", "blacklisted", 5),
     Profile("uid", NoStatus, 2),
     Profile("phone_num", "blacklisted", NoCount),
     Profile("phone_num", NoStatus, 5),
     Profile("identity_no", "blacklisted", 1),
     Profile("merchant", NoStatus, 2)}

\* uid_key of a uid node, key of any other node.
NodeKeys == <<"k1", "k2", "k2", "k1">>

\* The uid keys a caller asks about; "k0" is the key of no node.
SeedKeys == {"k0", "k1", "k2"}

VARIABLES
    store,           \* the graph snapshot: node properties and relationships
    max_k_hops,      \* self.max_k_hops
    weights,         \* self.weights of the scorer
    pc,              \* the operation that ran last
    start_uid,       \* the uid_key it ran for
    anomaly_nodes,   \* the list find_anomaly_nodes_k_hop returned to it
    risk_score,      \* the value get_risk_score returned
    hop_analyses,    \* the hop_analyses analyze_uid_neighborhood returned
    case_node,       \* a node's properties as the CASE expression reads them
    node_type,       \* the node_type the CASE expression gave that node
    raised,          \* the exception the operation raised, "none" if it returned
    uid_analyses,    \* GroupAnalysisResult.uid_analyses of the group at hand
    arguments,       \* the arguments the operation was called with
    result,          \* the value the operation returned
    uids,            \* the list of seeds a batch run loops over
    position,        \* how many of them the loop has been through
    batch_analyses,  \* analyses, the list the batch has built so far
    output,          \* the lines printed so far
    failures,        \* the positions of uids at which the call raised
    risk_scores,     \* risk_scores, uids_list and true_labels of main
    saved,           \* the files main has written
    closed           \* how many times the driver was closed

\* The variables of the group-level statistics.
groupVars == <<uid_analyses, arguments, result>>

\* The variables of a batch run, and those main of model.py adds to them.
batchVars == <<uids, position, batch_analyses, output, failures>>
mainVars == <<risk_scores, saved, closed>>

vars == <<store, max_k_hops, weights, pc, start_uid, anomaly_nodes,
          risk_score, hop_analyses, case_node, node_type, raised, groupVars,
          batchVars, mainVars>>

\* No batch has run.
NoBatch ==
    /\ uids = <<>>
    /\ position = 0
    /\ batch_analyses = <<>>
    /\ output = <<>>
    /\ failures = {}
    /\ risk_scores = <<>>
    /\ saved = {}
    /\ closed = 0

\* ------------------------------------------------------- the Cypher query

\* The other end of relationship e seen from node cur: the pattern
\* (start)-[*1..k]-(n) has no arrow, a relationship is followed both ways.
OtherEnd(e, cur) == IF e[1] = cur THEN e[2] ELSE e[1]

\* <<n, length(path)>> for every path of at most k relationships that extends
\* a path ending at cur which used the relationships in used.  A Cypher path
\* never repeats a relationship; it may revisit nodes.
RECURSIVE PathEnds(_, _, _, _)
PathEnds(g, cur, used, k) ==
    IF Cardinality(used) >= k THEN {}
    ELSE UNION {
        {<<OtherEnd(e, cur), Cardinality(used) + 1>>}
            \cup PathEnds(g, OtherEnd(e, cur), used \cup {e}, k) :
        e \in {r \in g.relations \ used : cur \in {r[1], r[2]}} }

\* MATCH (start:uid {uid_key: $start_uid})
StartNodes(g, uid) ==
    {s \in Nodes : g.label[s] = "uid" /\ g.key[s] = uid}


\* A WHERE clause without n <> start.
MatchedPathsWithStart(g, uid, k) ==
    UNION { {p \in PathEnds(g, s, {}, k) :
                g.label[p[1]] \in ALL_NODE_LABELS} :
            s \in StartNodes(g, uid) }

\* A pattern whose paths stop at a node with a label outside the catalog.
MatchedPathsOfCatalog(g, uid, k) ==
    LET catalog == [g EXCEPT !.relations =
                      {r \in @ : /\ g.label[r[1]] \in ALL_NODE_LABELS
                                 /\ g.label[r[2]] \in ALL_NODE_LABELS}]
    IN  UNION { {p \in PathEnds(catalog, s, {}, k) :
                    g.label[p[1]] \in ALL_NODE_LABELS /\ p[1] # s} :
                s \in StartNodes(g, uid) }

\* MATCH path = (start)-[*1..k]-(n) WHERE labels(n)[0] IN $all_labels
\* AND n <> start WITH DISTINCT n, length(path) as hop_distance
MatchedPaths(g, uid, k) ==
    UNION { {p \in PathEnds(g, s, {}, k) :
                g.label[p[1]] \in ALL_NODE_LABELS /\ p[1] # s} :
            s \in StartNodes(g, uid) }


\* The two WHEN branches in the other order.
NodeTypeCountFirst(l, s, c, anomalous) ==
    IF l # "uid" /\ c # NoCount /\ c > 1 THEN anomalous
    ELSE IF l \in BLACKLISTABLE_LABELS /\ s = "blacklisted" THEN "blacklisted"
    ELSE "normal"

\* A second branch that does not exclude uid nodes.
NodeTypeUidAnomalous(l, s, c, anomalous) ==
    IF l \in BLACKLISTABLE_LABELS /\ s = "blacklisted" THEN "blacklisted"
    ELSE IF c # NoCount /\ c > 1 THEN anomalous
    ELSE "normal"

\* The CASE expression of the query; anomalous is the name the class gives to
\* its second branch ('anomalous' in model.py, 'common' in the analyzer).
NodeType(l, s, c, anomalous) ==
    IF l \in BLACKLISTABLE_LABELS /\ s = "blacklisted" THEN "blacklisted"
    ELSE IF l # "uid" /\ c # NoCount /\ c > 1 THEN anomalous
    ELSE "normal"

\* COALESCE(n.associated_uid_count, 0)
Coalesce(c) == IF c = NoCount THEN 0 ELSE c

\* One row of the result: WHERE node_type IN [...] RETURN node_type, label,
\* associated_uid_count, hop_distance, node_key.
Row(g, p, anomalous) ==
    [node_type |-> NodeType(g.label[p[1]], g.status[p[1]],
                            g.associated_uid_count[p[1]], anomalous),
     label |-> g.label[p[1]],
     associated_uid_count |-> Coalesce(g.associated_uid_count[p[1]]),
     hop_distance |-> p[2],
     node_key |-> g.key[p[1]]]

ResultRows(g, uid, k, anomalous) ==
    {r \in {Row(g, p, anomalous) : p \in MatchedPaths(g, uid, k)} :
        r.node_type \in {"blacklisted", anomalous}}

\* Order of strings as ORDER BY compares them.
TypeRank(t) ==
    CASE t = "anomalous" -> 1 [] t = "blacklisted" -> 2 [] t = "common" -> 3
      [] OTHER -> 4

LabelRank(l) ==
    CASE l = "card_no" -> 1 [] l = "device_no" -> 2 [] l = "geo_code" -> 3
      [] l = "identity_no" -> 4 [] l = "phone_num" -> 5
      [] l = "remote_ip" -> 6 [] l = "td_device_id" -> 7 [] l = "uid" -> 8
      [] OTHER -> 9

\* ORDER BY hop_distance alone.
OrderedBeforeByHop(r, q) == r.hop_distance < q.hop_distance

\* ORDER BY hop_distance, node_type, label: r comes strictly before q.
OrderedBefore(r, q) ==
    \/ r.hop_distance < q.hop_distance
    \/ /\ r.hop_distance = q.hop_distance
       /\ TypeRank(r.node_type) < TypeRank(q.node_type)
    \/ /\ r.hop_distance = q.hop_distance
       /\ r.node_type = q.node_type
       /\ LabelRank(r.label) < LabelRank(q.label)

\* Every order in which the store may return the rows: rows that tie on the
\* three sort keys come in any order.
RECURSIVE Orderings(_)
Orderings(rows) ==
    IF rows = {} THEN {<<>>}
    ELSE UNION { {<<r>> \o rest : rest \in Orderings(rows \ {r})} :
                 r \in {m \in rows : \A q \in rows : ~OrderedBefore(q, m)} }

\* --------------------------------------------- find_anomaly_nodes_k_hop

\* node_key = f"{record['label']}_{record['node_key']}"
DedupKey(r) == r.label \o "_" \o r.node_key

AnomalyNode(r) ==
    [node_type |-> r.node_type, label |-> r.label,
     associated_uid_count |-> r.associated_uid_count,
     hop_distance |-> r.hop_distance, node_key |-> DedupKey(r)]

\* A loop that forgets the seen set: every record is kept.
CollectNodesNoDedup(records, seen, acc) ==
    acc \o [i \in 1 .. Len(records) |-> AnomalyNode(records[i])]

\* The loop over the records: the first record of each node_key is kept.
RECURSIVE CollectNodes(_, _, _)
CollectNodes(records, seen, acc) ==
    IF records = <<>> THEN acc
    ELSE LET r == Head(records) IN
         IF DedupKey(r) \notin seen
         THEN CollectNodes(Tail(records), seen \cup {DedupKey(r)},
                           Append(acc, AnomalyNode(r)))
         ELSE CollectNodes(Tail(records), seen, acc)

\* The lists find_anomaly_nodes_k_hop can return, one per order of the rows.
FindAnomalyNodesKHop(g, uid, k, anomalous) ==
    {CollectNodes(records, {}, <<>>) :
        records \in Orderings(ResultRows(g, uid, k, anomalous))}

\* ------------------------------------------------------- get_risk_score

\* A lookup that weighs an unlisted key 1.
DictGetUnlistedOne(d, k, default) == IF k \in DOMAIN d THEN d[k] ELSE 1

\* d.get(key, default) of a dict, modelled as a function on its keys.
DictGet(d, k, default) == IF k \in DOMAIN d THEN d[k] ELSE default

\* weight_key = f"{node.node_type}_{node.label}"
WeightKey(node) == node.node_type \o "_" \o node.label


\* A multiplier of associated_uid_count instead of associated_uid_count - 1.
ContributionWholeCount(node, w) ==
    LET weight == DictGet(w[(node.hop_distance - 1) + 1], WeightKey(node), 0)
    IN  IF WeightKey(node) = "blacklisted_uid" THEN weight
        ELSE weight * node.associated_uid_count

\* No special case for blacklisted_uid.
ContributionNoUidCase(node, w) ==
    DictGet(w[(node.hop_distance - 1) + 1], WeightKey(node), 0)
        * (node.associated_uid_count - 1)

\* A multiplier clamped at 0.
ContributionClamped(node, w) ==
    LET weight == DictGet(w[(node.hop_distance - 1) + 1], WeightKey(node), 0)
    IN  IF WeightKey(node) = "blacklisted_uid" THEN weight
        ELSE IF node.associated_uid_count > 1
             THEN weight * (node.associated_uid_count - 1) ELSE 0

\* The body of the scoring loop for one node: what it adds to risk_score.
Contribution(node, w) ==
    LET hop_weights == w[(node.hop_distance - 1) + 1]
        weight == DictGet(hop_weights, WeightKey(node), 0)
    IN  IF WeightKey(node) = "blacklisted_uid" THEN weight
        ELSE weight * (node.associated_uid_count - 1)

\* for node in all_anomaly_nodes: risk_score += ...
RECURSIVE RiskScore(_, _, _)
RiskScore(nodes, w, score) ==
    IF nodes = <<>> THEN score
    ELSE RiskScore(Tail(nodes), w, score + Contribution(Head(nodes), w))

\* ---------------------------------------------- analyze_uid_neighborhood

\* A Python dict in insertion order: a sequence of [key, value] entries.
DictKeys(d) == [i \in 1 .. Len(d) |-> d[i].key]
HasKey(d, k) == \E i \in 1 .. Len(d) : d[i].key = k

\* detailed_type of _group_anomaly_nodes_by_type
DetailedType(node) ==
    IF node.node_type = "blacklisted" THEN "blacklisted_" \o node.label
    ELSE "common_" \o node.label

\* type_groups[detailed_type].append(node) on a defaultdict(list)
RECURSIVE TypeGroups(_, _)
TypeGroups(nodes, groups) ==
    IF nodes = <<>> THEN groups
    ELSE LET node == Head(nodes)
             dt == DetailedType(node)
         IN  TypeGroups(Tail(nodes),
                IF HasKey(groups, dt)
                THEN [i \in 1 .. Len(groups) |->
                        IF groups[i].key = dt
                        THEN [key |-> dt,
                              value |-> Append(groups[i].value, node)]
                        ELSE groups[i]]
                ELSE Append(groups, [key |-> dt, value |-> <<node>>]))

AssociatedCounts(nodes) ==
    [i \in 1 .. Len(nodes) |-> nodes[i].associated_uid_count]

\* A magnitude list that keeps the counts that are 0.
GroupAnomalyNodesByTypeAllCounts(nodes) ==
    LET groups == TypeGroups(nodes, <<>>) IN
    [i \in 1 .. Len(groups) |->
        [key |-> groups[i].key,
         value |-> [node_type |-> groups[i].key,
                    count |-> Len(groups[i].value),
                    uid_association_counts |->
                        AssociatedCounts(groups[i].value)]]]

\* _group_anomaly_nodes_by_type: one AnomalyNodeStats per detailed type.
GroupAnomalyNodesByType(nodes) ==
    LET groups == TypeGroups(nodes, <<>>) IN
    [i \in 1 .. Len(groups) |->
        [key |-> groups[i].key,
         value |-> [node_type |-> groups[i].key,
                    count |-> Len(groups[i].value),
                    uid_association_counts |->
                        SelectSeq(AssociatedCounts(groups[i].value),
                                  LAMBDA c : c > 0)]]]

\* nodes_by_hop.get(hop, [])
HopNodes(nodes, hop) == SelectSeq(nodes, LAMBDA n : n.hop_distance = hop)

\* A loop over the hops of nodes_by_hop instead of range(1, max_k_hops + 1).
HopAnalysesOfFoundHops(nodes, k) ==
    LET all == [hop \in 1 .. k |->
                  [key |-> hop,
                   value |-> [hop_distance |-> hop,
                              total_anomaly_nodes |-> Len(HopNodes(nodes, hop)),
                              anomaly_stats_by_type |->
                                  GroupAnomalyNodesByType(HopNodes(nodes, hop))]]]
    IN  SelectSeq(all, LAMBDA e : e.value.total_anomaly_nodes > 0)

\* A loop over range(1, max_k_hops).
HopAnalysesShort(nodes, k) ==
    [hop \in 1 .. k - 1 |->
        [key |-> hop,
         value |-> [hop_distance |-> hop,
                    total_anomaly_nodes |-> Len(HopNodes(nodes, hop)),
                    anomaly_stats_by_type |->
                        GroupAnomalyNodesByType(HopNodes(nodes, hop))]]]

\* for hop in range(1, self.max_k_hops + 1): hop_analyses[hop] = HopAnalysis(...)
HopAnalyses(nodes, k) ==
    [hop \in 1 .. k |->
        [key |-> hop,
         value |-> [hop_distance |-> hop,
                    total_anomaly_nodes |-> Len(HopNodes(nodes, hop)),
                    anomaly_stats_by_type |->
                        GroupAnomalyNodesByType(HopNodes(nodes, hop))]]]

\* ------------------------------------------------------------- the system

\* The weights argument of AnomalyDetection: one mapping per hop.  Hop 1
\* weights every non-uid type but anomalous_geo_code, hop 2 only
\* blacklisted_uid, the later hops weight blacklisted nodes 10 and shared
\* phones and identity numbers 2.
HopWeights(hop) ==
    IF hop = 1 THEN
        [t \in {"blacklisted_phone_num", "blacklisted_identity_no",
                "anomalous_phone_num", "anomalous_identity_no",
                "anomalous_card_no", "anomalous_device_no",
                "anomalous_td_device_id", "anomalous_remote_ip"} |-> 1]
    ELSE IF hop = 2 THEN [t \in {"blacklisted_uid"} |-> 10]
    ELSE [t \in {"blacklisted_uid", "blacklisted_phone_num",
                 "blacklisted_identity_no", "anomalous_phone_num",
                 "anomalous_identity_no"} |->
            IF t \in {"anomalous_phone_num", "anomalous_identity_no"}
            THEN 2 ELSE 10]

WeightTable(k) == [hop \in 1 .. k |-> HopWeights(hop)]

\* The snapshots: node 1 is a uid without status, every other node has one of
\* the profiles, no two nodes share label and key.
Snapshots ==
    {g \in [label : [Nodes -> {p.label : p \in NodeProfiles}],
            key : {[n \in Nodes |-> NodeKeys[n]]},
            status : [Nodes -> {p.status : p \in NodeProfiles}],
            associated_uid_count :
                [Nodes -> {p.associated_uid_count : p \in NodeProfiles}],
            relations : SUBSET CandidateRelations] :
        /\ g.label[1] = "uid" /\ g.status[1] = NoStatus
        /\ g.associated_uid_count[1] = 2
        /\ \A n \in Nodes :
              Profile(g.label[n], g.status[n], g.associated_uid_count[n])
                  \in NodeProfiles
        /\ \A n, m \in Nodes :
              n # m => <<g.label[n], g.key[n]>> # <<g.label[m], g.key[m]>>}

Init ==
    /\ store \in Snapshots
    /\ max_k_hops \in 1 .. MaxHops
    /\ weights = WeightTable(max_k_hops)
    /\ pc = "constructed"
    /\ start_uid = "k0"
    /\ anomaly_nodes = <<>>
    /\ risk_score = 0
    /\ hop_analyses = <<>>
    /\ case_node = Profile("uid", NoStatus, NoCount)
    /\ node_type = "unclassified"
    /\ raised = "none"
    /\ uid_analyses = <<>>
    /\ arguments = <<>>
    /\ result = <<>>
    /\ NoBatch

\* AnomalyDetection.get_risk_score(session, uid_key)
GetRiskScore(uid) ==
    \E nodes \in FindAnomalyNodesKHop(store, uid, max_k_hops, "anomalous") :
        /\ pc' = "get_risk_score"
        /\ start_uid' = uid
        /\ anomaly_nodes' = nodes
        /\ risk_score' = RiskScore(nodes, weights, 0)
        /\ hop_analyses' = <<>>
        /\ raised' = "none"
        /\ UNCHANGED <<store, max_k_hops, weights, case_node, node_type,
                       groupVars, batchVars, mainVars>>

\* BlacklistAnalyzer.analyze_uid_neighborhood(session, uid_key, is_blacklisted)
AnalyzeUidNeighborhood(uid) ==
    \E nodes \in FindAnomalyNodesKHop(store, uid, max_k_hops, "common") :
        /\ pc' = "analyze_uid_neighborhood"
        /\ start_uid' = uid
        /\ anomaly_nodes' = nodes
        /\ hop_analyses' = HopAnalyses(nodes, max_k_hops)
        /\ risk_score' = 0
        /\ raised' = "none"
        /\ UNCHANGED <<store, max_k_hops, weights, case_node, node_type,
                       groupVars, batchVars, mainVars>>

Next ==
    \/ \E uid \in SeedKeys : GetRiskScore(uid)
    \/ \E uid \in SeedKeys : AnalyzeUidNeighborhood(uid)

Spec == Init /\ [][Next]_vars

\* ------------------------------------------ the CASE expression by itself

\* Labels, statuses and counts a node of the store may carry.
NodeLabels == ALL_NODE_LABELS \cup {"merchant"}
NodeStatuses == {"blacklisted", "normal", NoStatus}
NodeCounts == {NoCount, 0, 1, 2, 5}

\* A store of unconnected nodes, for the runs that only classify.
EmptySnapshot ==
    [label |-> [n \in Nodes |-> IF n <= 2 THEN "uid" ELSE "phone_num"],
     key |-> [n \in Nodes |-> NodeKeys[n]],
     status |-> [n \in Nodes |-> NoStatus],
     associated_uid_count |-> [n \in Nodes |-> NoCount],
     relations |-> {}]

InitClassify ==
    /\ case_node \in {Profile(l, s, c) :
                    l \in NodeLabels, s \in NodeStatuses, c \in NodeCounts}
    /\ node_type = "unclassified"
    /\ store = EmptySnapshot
    /\ max_k_hops = 1
    /\ weights = WeightTable(1)
    /\ pc = "constructed"
    /\ start_uid = "k0"
    /\ anomaly_nodes = <<>>
    /\ risk_score = 0
    /\ hop_analyses = <<>>
    /\ raised = "none"
    /\ uid_analyses = <<>>
    /\ arguments = <<>>
    /\ result = <<>>
    /\ NoBatch

\* The CASE expression of the query of model.py
ClassifyModel ==
    /\ pc' = "model.py"
    /\ node_type' = NodeType(case_node.label, case_node.status,
                             case_node.associated_uid_count, "anomalous")
    /\ UNCHANGED <<store, max_k_hops, weights, start_uid, anomaly_nodes,
                   risk_score, hop_analyses, case_node, raised, groupVars, batchVars, mainVars>>

\* The CASE expression of the query of blacklist_anomaly_analyzer.py
ClassifyAnalyzer ==
    /\ pc' = "blacklist_anomaly_analyzer.py"
    /\ node_type' = NodeType(case_node.label, case_node.status,
                             case_node.associated_uid_count, "common")
    /\ UNCHANGED <<store, max_k_hops, weights, start_uid, anomaly_nodes,
                   risk_score, hop_analyses, case_node, raised, groupVars, batchVars, mainVars>>

NextClassify == ClassifyModel \/ ClassifyAnalyzer

SpecClassify == InitClassify /\ [][NextClassify]_vars

\* ------------------------------------------- the statistics of a group

\* The numbers that statistics.mean and / return, as fractions in lowest
\* terms; float('inf') is the fraction of denominator 0.
RECURSIVE Gcd(_, _)
Gcd(a, b) == IF b = 0 THEN a ELSE Gcd(b, a % b)

Fraction(n, d) ==
    LET g == Gcd(n, d) IN [num |-> n \div g, den |-> d \div g]

Zero == Fraction(0, 1)
Inf == [num |-> 1, den |-> 0]

\* a / b of two finite numbers, b > 0
Divide(a, b) == Fraction(a.num * b.den, a.den * b.num)

\* a > b of two numbers
Greater(a, b) == a.num * b.den > b.num * a.den

\* sum(), max() and min() of a list of integers
RECURSIVE SumSeq(_)
SumSeq(s) == IF s = <<>> THEN 0 ELSE Head(s) + SumSeq(Tail(s))

MaxSeq(s) == CHOOSE x \in {s[i] : i \in 1 .. Len(s)} :
                \A i \in 1 .. Len(s) : s[i] <= x

MinSeq(s) == CHOOSE x \in {s[i] : i \in 1 .. Len(s)} :
                \A i \in 1 .. Len(s) : x <= s[i]

\* statistics.mean(counts) of a list that is not empty
Mean(counts) == Fraction(SumSeq(counts), Len(counts))

\* sum() of a list of numbers
RECURSIVE SumFractions(_)
SumFractions(s) ==
    IF s = <<>> THEN Zero
    ELSE LET rest == SumFractions(Tail(s)) IN
         Fraction(Head(s).num * rest.den + rest.num * Head(s).den,
                  Head(s).den * rest.den)

\* d[k] of a mapping that has the key k
DictValue(d, k) == d[CHOOSE i \in 1 .. Len(d) : d[i].key = k].value

\* d[k].append(v) on a defaultdict(list)
AppendTo(d, k, v) ==
    IF HasKey(d, k)
    THEN [i \in 1 .. Len(d) |->
            IF d[i].key = k
            THEN [key |-> k, value |-> Append(d[i].value, v)]
            ELSE d[i]]
    ELSE Append(d, [key |-> k, value |-> <<v>>])

\* d[k][t].append(v) on a defaultdict(lambda: defaultdict(list))
AppendToNested(d, k, t, v) ==
    IF HasKey(d, k)
    THEN [i \in 1 .. Len(d) |->
            IF d[i].key = k
            THEN [key |-> k, value |-> AppendTo(d[i].value, t, v)]
            ELSE d[i]]
    ELSE Append(d, [key |-> k, value |-> AppendTo(<<>>, t, v)])

RECURSIVE Flatten(_)
Flatten(seqs) ==
    IF seqs = <<>> THEN <<>> ELSE Head(seqs) \o Flatten(Tail(seqs))

\* The (hop, analysis) pairs the two nested for loops visit, in order.
HopItems(analyses) ==
    Flatten([i \in 1 .. Len(analyses) |-> analyses[i].hop_analyses])

\* The (hop, node_type, stats) triples the three nested for loops visit.
TypeItems(analyses) ==
    LET items == HopItems(analyses) IN
    Flatten([i \in 1 .. Len(items) |->
        [j \in 1 .. Len(items[i].value.anomaly_stats_by_type) |->
            [hop |-> items[i].key,
             node_type |-> items[i].value.anomaly_stats_by_type[j].key,
             stats |-> items[i].value.anomaly_stats_by_type[j].value]]])

\* hop_totals[hop].append(analysis.total_anomaly_nodes), for every pair
RECURSIVE HopTotals(_, _)
HopTotals(items, hop_totals) ==
    IF items = <<>> THEN hop_totals
    ELSE HopTotals(Tail(items),
                   AppendTo(hop_totals, Head(items).key,
                            Head(items).value.total_anomaly_nodes))

\* GroupAnalysisResult.get_avg_anomaly_nodes_by_hop
AvgAnomalyNodesByHop(analyses) ==
    LET hop_totals == HopTotals(HopItems(analyses), <<>>) IN
    [i \in 1 .. Len(hop_totals) |->
        [key |-> hop_totals[i].key,
         value |-> IF hop_totals[i].value # <<>>
                   THEN Mean(hop_totals[i].value) ELSE Zero]]

\* hop_type_distributions[hop][node_type].append(count), for every triple
RECURSIVE TypeDistributions(_, _)
TypeDistributions(items, distributions) ==
    IF items = <<>> THEN distributions
    ELSE TypeDistributions(Tail(items),
            AppendToNested(distributions, Head(items).hop,
                           Head(items).node_type, Head(items).stats.count))

\* GroupAnalysisResult.get_type_distribution_by_hop
TypeDistributionByHop(analyses) ==
    TypeDistributions(TypeItems(analyses), <<>>)

\* hop_assoc_distributions[hop][node_type].append(uid_association_counts)
RECURSIVE AssocDistributions(_, _)
AssocDistributions(items, distributions) ==
    IF items = <<>> THEN distributions
    ELSE AssocDistributions(Tail(items),
            AppendToNested(distributions, Head(items).hop,
                           Head(items).node_type,
                           Head(items).stats.uid_association_counts))

\* GroupAnalysisResult.get_uid_association_distribution_by_hop
UidAssociationDistributionByHop(analyses) ==
    AssocDistributions(TypeItems(analyses), <<>>)

\* sum(hop_analysis.total_anomaly_nodes for ... in hop_analyses.values())
TotalAnomalyNodes(analysis) ==
    SumSeq([i \in 1 .. Len(analysis.hop_analyses) |->
               analysis.hop_analyses[i].value.total_anomaly_nodes])

\* The entry of isolated_uid_list for one uid
IsolatedUid(analysis) ==
    [uid_key |-> analysis.uid_key,
     total_anomaly_nodes |-> TotalAnomalyNodes(analysis),
     hop_breakdown |->
        [i \in 1 .. Len(analysis.hop_analyses) |->
            [key |-> analysis.hop_analyses[i].key,
             value |-> analysis.hop_analyses[i].value.total_anomaly_nodes]]]

\* A filter that keeps every member of the group.
BlacklistAnalysesOfAll(analyses) == analyses

\* [analysis for analysis in self.uid_analyses if analysis.is_blacklisted]
BlacklistAnalyses(analyses) ==
    SelectSeq(analyses, LAMBDA analysis : analysis.is_blacklisted)

\* total_anomaly_nodes <= isolation_threshold
IsIsolated(total_anomaly_nodes, isolation_threshold) ==
    total_anomaly_nodes <= isolation_threshold

\* The ratio of the isolated members to the members that are not.
IsolationRateToNonIsolated(isolated_uids, blacklist_analyses) ==
    Fraction(Len(isolated_uids), Len(blacklist_analyses) - Len(isolated_uids))

\* isolation_rate = len(isolated_uids) / len(blacklist_analyses)
IsolationRate(isolated_uids, blacklist_analyses) ==
    Fraction(Len(isolated_uids), Len(blacklist_analyses))

\* GroupAnalysisResult.get_isolated_blacklist_stats; the mapping it returns
\* is a record, whose DOMAIN is the set of keys it has.
IsolatedBlacklistStats(analyses, isolation_threshold) ==
    LET blacklist_analyses == BlacklistAnalyses(analyses)
        isolated ==
            SelectSeq(blacklist_analyses, LAMBDA analysis :
                IsIsolated(TotalAnomalyNodes(analysis), isolation_threshold))
        non_isolated ==
            SelectSeq(blacklist_analyses, LAMBDA analysis :
                ~IsIsolated(TotalAnomalyNodes(analysis), isolation_threshold))
        isolated_uids == [i \in 1 .. Len(isolated) |-> IsolatedUid(isolated[i])]
        non_isolated_anomaly_counts ==
            [i \in 1 .. Len(non_isolated) |-> TotalAnomalyNodes(non_isolated[i])]
    IN  IF blacklist_analyses = <<>>
        THEN [total_blacklist_uids |-> 0,
              isolated_blacklist_uids |-> 0,
              isolation_rate |-> Zero,
              isolated_uid_list |-> <<>>,
              non_isolated_stats |->
                 [count |-> 0,
                  avg_total_anomaly_nodes |-> Zero,
                  max_total_anomaly_nodes |-> 0]]
        ELSE [total_blacklist_uids |-> Len(blacklist_analyses),
              isolated_blacklist_uids |-> Len(isolated_uids),
              isolation_rate |->
                 IsolationRate(isolated_uids, blacklist_analyses),
              isolation_threshold |-> isolation_threshold,
              isolated_uid_list |-> isolated_uids,
              non_isolated_stats |->
                 [count |-> Len(non_isolated_anomaly_counts),
                  avg_total_anomaly_nodes |->
                     IF non_isolated_anomaly_counts # <<>>
                     THEN Mean(non_isolated_anomaly_counts) ELSE Zero,
                  max_total_anomaly_nodes |->
                     IF non_isolated_anomaly_counts # <<>>
                     THEN MaxSeq(non_isolated_anomaly_counts) ELSE 0,
                  min_total_anomaly_nodes |->
                     IF non_isolated_anomaly_counts # <<>>
                     THEN MinSeq(non_isolated_anomaly_counts) ELSE 0]]

\* d.get(k, default) of a mapping
GetOr(d, k, default) == IF HasKey(d, k) THEN DictValue(d, k) ELSE default

\* sorted() of a set of integers
RECURSIVE Sorted(_)
Sorted(S) ==
    IF S = {} THEN <<>>
    ELSE LET least == CHOOSE x \in S : \A y \in S : x <= y
         IN  <<least>> \o Sorted(S \ {least})

\* The default of the parameter isolation_threshold
DefaultIsolationThreshold == 2

\* The keys print_group_analysis subscripts the isolation result with.
SubscriptedKeysOfPrint ==
    {"total_blacklist_uids", "isolated_blacklist_uids", "isolation_rate",
     "isolation_threshold", "isolated_uid_list", "non_isolated_stats"}

\* The keys compare_groups subscripts the isolation result of the blacklist
\* group with, and, among them, the keys of its non_isolated_stats.
SubscriptedKeys ==
    {"total_blacklist_uids", "isolated_blacklist_uids", "isolation_rate",
     "non_isolated_stats"}

SubscriptedNonIsolatedKeys(stats) ==
    IF stats.non_isolated_stats.count > 0
    THEN {"count", "avg_total_anomaly_nodes"} ELSE {"count"}

\* A ratio that is 0 when both averages are 0.
RatioZeroOfZeros(bl_avg, normal_avg) ==
    IF Greater(normal_avg, Zero) THEN Divide(bl_avg, normal_avg)
    ELSE IF Greater(bl_avg, Zero) THEN Inf ELSE Zero

\* bl_avg / normal_avg if normal_avg > 0 else float('inf')
Ratio(bl_avg, normal_avg) ==
    IF Greater(normal_avg, Zero) THEN Divide(bl_avg, normal_avg) ELSE Inf

\* The values compare_groups computes and prints: one row per hop, the
\* total ratio, and which of the two warnings it printed.
Comparison(blacklist_analyses, normal_analyses) ==
    LET bl_isolation_stats ==
            IsolatedBlacklistStats(blacklist_analyses, DefaultIsolationThreshold)
        bl_avg_by_hop == AvgAnomalyNodesByHop(blacklist_analyses)
        normal_avg_by_hop == AvgAnomalyNodesByHop(normal_analyses)
        hops == Sorted({bl_avg_by_hop[i].key : i \in 1 .. Len(bl_avg_by_hop)}
                  \cup {normal_avg_by_hop[i].key :
                            i \in 1 .. Len(normal_avg_by_hop)})
        total_ratio ==
            Ratio(SumFractions([i \in 1 .. Len(bl_avg_by_hop) |->
                                   bl_avg_by_hop[i].value]),
                  SumFractions([i \in 1 .. Len(normal_avg_by_hop) |->
                                   normal_avg_by_hop[i].value]))
    IN  [rows |->
            [i \in 1 .. Len(hops) |->
                [hop |-> hops[i],
                 bl_avg |-> GetOr(bl_avg_by_hop, hops[i], Zero),
                 normal_avg |-> GetOr(normal_avg_by_hop, hops[i], Zero),
                 ratio |-> Ratio(GetOr(bl_avg_by_hop, hops[i], Zero),
                                 GetOr(normal_avg_by_hop, hops[i], Zero))]],
         total_ratio |-> total_ratio,
         high_isolation |->
            Greater(bl_isolation_stats.isolation_rate, Fraction(3, 10)),
         high_association |-> Greater(total_ratio, Fraction(2, 1))]

\* The groups of the runs on the statistics: up to MaxUids members, each
\* with the hop_analyses of one of a few neighbourhoods explored to one or
\* two hops, blacklisted or not.
MaxUids == 3
MaxThreshold == 3

SampleNode(t, l, c, hop) ==
    [node_type |-> t, label |-> l, associated_uid_count |-> c,
     hop_distance |-> hop, node_key |-> l \o "_n"]

FiveNodes ==
    <<SampleNode("blacklisted", "phone_num", 0, 1),
      SampleNode("common", "phone_num", 5, 1),
      SampleNode("common", "identity_no", 2, 1),
      SampleNode("blacklisted", "uid", 0, 2),
      SampleNode("common", "card_no", 3, 2)>>

OneNode == <<SampleNode("common", "phone_num", 2, 2)>>

SampleHopAnalyses ==
    {HopAnalyses(<<>>, 1), HopAnalyses(HopNodes(FiveNodes, 1), 1),
     HopAnalyses(OneNode, 2), HopAnalyses(FiveNodes, 2)}

UidKeys == <<"u1", "u2", "u3", "u4", "u5">>

\* UidNeighborhoodAnalysis(uid_key, is_blacklisted, hop_analyses)
UidNeighborhoodAnalysis(uid_key, is_blacklisted, analyses_by_hop) ==
    [uid_key |-> uid_key, is_blacklisted |-> is_blacklisted,
     hop_analyses |-> analyses_by_hop]

Groups ==
    UNION {{[i \in 1 .. n |->
                UidNeighborhoodAnalysis(UidKeys[i], f[i][1], f[i][2])] :
            f \in [1 .. n -> BOOLEAN \X SampleHopAnalyses]} :
           n \in 0 .. MaxUids}

\* The groups of uids that are not blacklisted which compare_groups is
\* given as its second argument.
NormalGroups ==
    {g \in Groups : /\ Len(g) <= 2
                    /\ \A i \in 1 .. Len(g) : ~g[i].is_blacklisted
                    /\ Len(g) = 2 => g[1].hop_analyses = HopAnalyses(OneNode, 2)}

InitGroup ==
    /\ uid_analyses \in Groups
    /\ result = <<>>
    /\ NoBatch
    /\ arguments = <<>>
    /\ raised = "none"
    /\ pc = "constructed"
    /\ store = EmptySnapshot
    /\ max_k_hops = 1
    /\ weights = WeightTable(1)
    /\ start_uid = "k0"
    /\ anomaly_nodes = <<>>
    /\ risk_score = 0
    /\ hop_analyses = <<>>
    /\ case_node = Profile("uid", NoStatus, NoCount)
    /\ node_type = "unclassified"

\* What the operations on a group leave alone.
explorerVars == <<store, max_k_hops, weights, start_uid, anomaly_nodes,
                  risk_score, hop_analyses, case_node, node_type>>

\* A pass that takes the analyses off the list as it reads them.
GetAvgAnomalyNodesByHopConsuming ==
    /\ pc' = "get_avg_anomaly_nodes_by_hop"
    /\ result' = AvgAnomalyNodesByHop(uid_analyses)
    /\ uid_analyses' = <<>>
    /\ arguments' = <<>>
    /\ raised' = "none"
    /\ UNCHANGED <<explorerVars, batchVars, mainVars>>

\* GroupAnalysisResult.get_avg_anomaly_nodes_by_hop()
GetAvgAnomalyNodesByHop ==
    /\ pc' = "get_avg_anomaly_nodes_by_hop"
    /\ result' = AvgAnomalyNodesByHop(uid_analyses)
    /\ arguments' = <<>>
    /\ raised' = "none"
    /\ UNCHANGED <<uid_analyses, explorerVars, batchVars, mainVars>>

\* GroupAnalysisResult.get_type_distribution_by_hop()
GetTypeDistributionByHop ==
    /\ pc' = "get_type_distribution_by_hop"
    /\ result' = TypeDistributionByHop(uid_analyses)
    /\ arguments' = <<>>
    /\ raised' = "none"
    /\ UNCHANGED <<uid_analyses, explorerVars, batchVars, mainVars>>

\* GroupAnalysisResult.get_uid_association_distribution_by_hop()
GetUidAssociationDistributionByHop ==
    /\ pc' = "get_uid_association_distribution_by_hop"
    /\ result' = UidAssociationDistributionByHop(uid_analyses)
    /\ arguments' = <<>>
    /\ raised' = "none"
    /\ UNCHANGED <<uid_analyses, explorerVars, batchVars, mainVars>>

\* GroupAnalysisResult.get_isolated_blacklist_stats(isolation_threshold)
GetIsolatedBlacklistStats(isolation_threshold) ==
    /\ pc' = "get_isolated_blacklist_stats"
    /\ arguments' = <<isolation_threshold>>
    /\ result' = IsolatedBlacklistStats(uid_analyses, isolation_threshold)
    /\ raised' = "none"
    /\ UNCHANGED <<uid_analyses, explorerVars, batchVars, mainVars>>

\* BlacklistAnalyzer.compare_groups(blacklist_result, normal_result): a
\* subscript with a key the isolation result lacks raises KeyError.
CompareGroups(normal_analyses) ==
    LET bl_isolation_stats ==
            IsolatedBlacklistStats(uid_analyses, DefaultIsolationThreshold)
    IN  /\ pc' = "compare_groups"
        /\ arguments' = <<normal_analyses>>
        /\ IF /\ SubscriptedKeys \subseteq DOMAIN bl_isolation_stats
              /\ SubscriptedNonIsolatedKeys(bl_isolation_stats)
                    \subseteq DOMAIN bl_isolation_stats.non_isolated_stats
           THEN /\ raised' = "none"
                /\ result' = Comparison(uid_analyses, normal_analyses)
           ELSE /\ raised' = "KeyError"
                /\ result' = <<>>
        /\ UNCHANGED <<uid_analyses, explorerVars, batchVars, mainVars>>

NextGroup ==
    \/ GetAvgAnomalyNodesByHop
    \/ GetTypeDistributionByHop
    \/ GetUidAssociationDistributionByHop
    \/ \E isolation_threshold \in 0 .. MaxThreshold :
          GetIsolatedBlacklistStats(isolation_threshold)
    \/ \E normal_analyses \in NormalGroups : CompareGroups(normal_analyses)

SpecGroup == InitGroup /\ [][NextGroup]_vars

\* -------------------------------------------------------- the batch run

\* The runs on the batch: lists of up to MaxBatch seeds, over a store of two
\* uids, a phone number and an identity number in a chain, a ring, or apart.
MaxBatch == 3

\* if processed % 50 == 0
ProgressEvery == 50

BatchSnapshot(relations) ==
    [label |-> <<"uid", "uid", "phone_num", "identity_no">>,
     key |-> [n \in Nodes |-> NodeKeys[n]],
     status |-> <<NoStatus, "blacklisted", "blacklisted", "blacklisted">>,
     associated_uid_count |-> <<2, 5, NoCount, 1>>,
     relations |-> relations]

BatchSnapshots ==
    {BatchSnapshot({}), BatchSnapshot({<<1, 2>>, <<2, 3>>, <<3, 4>>}),
     BatchSnapshot(CandidateRelations)}

\* The (uid_key, is_blacklisted) pairs of the lists; no node has key "k0".
BatchSeeds == {<<"k0", TRUE>>, <<"k1", FALSE>>, <<"k2", TRUE>>}

SeedLists == UNION {[1 .. n -> BatchSeeds] : n \in 0 .. MaxBatch}

\* The values of sample_size: 0, which the test takes as it takes None, and 2.
SampleSizes == {0, 2}

\* random.sample(uids, sample_size): sample_size entries of the list, at
\* different positions, in any order.
RandomSample(seeds, sample_size) ==
    {[i \in 1 .. sample_size |-> seeds[f[i]]] :
        f \in {g \in [1 .. sample_size -> 1 .. Len(seeds)] :
                  \A i, j \in 1 .. sample_size : i # j => g[i] # g[j]}}

InitBatch ==
    /\ store \in BatchSnapshots
    /\ max_k_hops \in {1, 2}
    /\ weights = WeightTable(max_k_hops)
    /\ uids \in SeedLists
    /\ position = 0
    /\ batch_analyses = <<>>
    /\ output = <<>>
    /\ failures = {}
    /\ risk_scores = <<>>
    /\ saved = {}
    /\ closed = 0
    /\ pc = "constructed"
    /\ raised = "none"
    /\ uid_analyses = <<>>
    /\ arguments = <<>>
    /\ result = <<>>
    /\ start_uid = "k0"
    /\ anomaly_nodes = <<>>
    /\ risk_score = 0
    /\ hop_analyses = <<>>
    /\ case_node = Profile("uid", NoStatus, NoCount)
    /\ node_type = "unclassified"

\* What a step of the batch leaves alone.
outsideBatch == <<store, max_k_hops, weights, start_uid, anomaly_nodes,
                  risk_score, hop_analyses, case_node, node_type,
                  uid_analyses, mainVars>>

\* batch_analyze_neighborhoods(session, uids, sample_size), up to the loop
BatchAnalyzeNeighborhoods(sample_size) ==
    /\ pc = "constructed"
    /\ pc' = "for uid_key, is_blacklisted in uids"
    /\ arguments' = <<sample_size>>
    /\ IF sample_size # 0 /\ Len(uids) > sample_size
       THEN /\ uids' \in RandomSample(uids, sample_size)
            /\ output' = <<[kind |-> "sampled", count |-> sample_size],
                           [kind |-> "started", count |-> sample_size]>>
       ELSE /\ uids' = uids
            /\ output' = <<[kind |-> "started", count |-> Len(uids)]>>
    /\ UNCHANGED <<position, batch_analyses, failures, raised, result,
                   outsideBatch>>

\* An iteration in which analyze_uid_neighborhood returns
AnalyzeNextUid ==
    /\ pc = "for uid_key, is_blacklisted in uids"
    /\ position < Len(uids)
    /\ \E nodes \in FindAnomalyNodesKHop(store, uids[position + 1][1],
                                        max_k_hops, "common") :
          batch_analyses' =
              Append(batch_analyses,
                     UidNeighborhoodAnalysis(uids[position + 1][1],
                                             uids[position + 1][2],
                                             HopAnalyses(nodes, max_k_hops)))
    /\ output' = IF Len(batch_analyses') % ProgressEvery = 0
                 THEN Append(output, [kind |-> "processed",
                                      count |-> Len(batch_analyses')])
                 ELSE output
    /\ position' = position + 1
    /\ UNCHANGED <<pc, uids, failures, raised, arguments, result, outsideBatch>>

\* An iteration whose except clause leaves the loop.
AnalyzeNextUidBreaks ==
    /\ pc = "for uid_key, is_blacklisted in uids"
    /\ position < Len(uids)
    /\ output' = Append(output, [kind |-> "error",
                                 uid_key |-> uids[position + 1][1]])
    /\ failures' = failures \cup {position + 1}
    /\ position' = Len(uids)
    /\ UNCHANGED <<pc, uids, batch_analyses, raised, arguments, result,
                   outsideBatch>>

\* An iteration in which analyze_uid_neighborhood raises: the query failed
AnalyzeNextUidRaises ==
    /\ pc = "for uid_key, is_blacklisted in uids"
    /\ position < Len(uids)
    /\ output' = Append(output, [kind |-> "error",
                                 uid_key |-> uids[position + 1][1]])
    /\ failures' = failures \cup {position + 1}
    /\ position' = position + 1
    /\ UNCHANGED <<pc, uids, batch_analyses, raised, arguments, result,
                   outsideBatch>>

\* The end of the loop: the last line printed, and return analyses
BatchReturns ==
    /\ pc = "for uid_key, is_blacklisted in uids"
    /\ position = Len(uids)
    /\ pc' = "batch_analyze_neighborhoods"
    /\ output' = Append(output, [kind |-> "analysed",
                                 count |-> Len(batch_analyses)])
    /\ result' = batch_analyses
    /\ raised' = "none"
    /\ UNCHANGED <<uids, position, batch_analyses, failures, arguments,
                   outsideBatch>>

\* The run is cancelled between two seeds: the only cancellation the loop
\* knows is a KeyboardInterrupt, which except Exception does not catch.  It
\* leaves batch_analyze_neighborhoods without a return value and the local
\* list analyses goes with the frame.
BatchInterrupted ==
    /\ pc = "for uid_key, is_blacklisted in uids"
    /\ position < Len(uids)
    /\ pc' = "batch_analyze_neighborhoods raised"
    /\ raised' = "KeyboardInterrupt"
    /\ batch_analyses' = <<>>
    /\ UNCHANGED <<uids, position, output, failures, arguments, result,
                   outsideBatch>>

NextBatch ==
    \/ \E sample_size \in SampleSizes : BatchAnalyzeNeighborhoods(sample_size)
    \/ AnalyzeNextUid
    \/ AnalyzeNextUidRaises
    \/ BatchInterrupted
    \/ BatchReturns

SpecBatch == InitBatch /\ [][NextBatch]_vars

\* ------------------------------------------------------ main of model.py

\* The runs of main: the two files hold up to MaxFile uid keys each.
MaxFile == 2

KeyLists == UNION {[1 .. n -> SeedKeys] : n \in 0 .. MaxFile}

\* blacklist_uids with true label 1, then normal_uids with true label 0
LabelledUids(blacklist_uids, normal_uids) ==
    [i \in 1 .. Len(blacklist_uids) |-> <<blacklist_uids[i], 1>>]
        \o [i \in 1 .. Len(normal_uids) |-> <<normal_uids[i], 0>>]

InitMain ==
    /\ store \in BatchSnapshots
    /\ max_k_hops = MaxHops
    /\ weights = WeightTable(max_k_hops)
    /\ \E blacklist_uids \in KeyLists, normal_uids \in KeyLists :
          uids = LabelledUids(blacklist_uids, normal_uids)
    /\ position = 0
    /\ batch_analyses = <<>>
    /\ output = <<>>
    /\ failures = {}
    /\ risk_scores = <<>>
    /\ saved = {}
    /\ closed = 0
    /\ pc = "constructed"
    /\ raised = "none"
    /\ uid_analyses = <<>>
    /\ arguments = <<>>
    /\ result = <<>>
    /\ start_uid = "k0"
    /\ anomaly_nodes = <<>>
    /\ risk_score = 0
    /\ hop_analyses = <<>>
    /\ case_node = Profile("uid", NoStatus, NoCount)
    /\ node_type = "unclassified"

\* What a step of main leaves alone.
outsideMain == <<store, max_k_hops, weights, start_uid, anomaly_nodes,
                 risk_score, hop_analyses, case_node, node_type,
                 groupVars, batch_analyses, uids>>

\* main up to its two loops: the session is opened and the files are read
MainReadsUids ==
    /\ pc = "constructed"
    /\ pc' = "for i, uid in enumerate"
    /\ output' = <<[kind |-> "started", count |-> Len(uids)]>>
    /\ UNCHANGED <<position, failures, risk_scores, saved, closed, raised,
                   outsideMain>>

\* An iteration of one of the two loops in which get_risk_score returns
ScoreNextUid ==
    /\ pc = "for i, uid in enumerate"
    /\ position < Len(uids)
    /\ \E nodes \in FindAnomalyNodesKHop(store, uids[position + 1][1],
                                        max_k_hops, "anomalous") :
          LET scored == [uid |-> uids[position + 1][1],
                         true_label |-> uids[position + 1][2],
                         risk_score |-> RiskScore(nodes, weights, 0)]
          IN  /\ risk_scores' = Append(risk_scores, scored)
              /\ output' = Append(output, [kind |-> "scored"] @@ scored)
    /\ position' = position + 1
    /\ UNCHANGED <<pc, failures, saved, closed, raised, outsideMain>>

\* An iteration in which get_risk_score raises: the exception leaves the
\* loop and the session, is printed, raised again, and the driver is closed.
ScoreNextUidRaises ==
    /\ pc = "for i, uid in enumerate"
    /\ position < Len(uids)
    /\ pc' = "main raised"
    /\ failures' = failures \cup {position + 1}
    /\ output' = Append(output, [kind |-> "error"])
    /\ raised' = "Exception"
    /\ closed' = closed + 1
    /\ UNCHANGED <<position, risk_scores, saved, outsideMain>>

\* roc_auc_score(true_labels, risk_scores): the share of the pairs of a
\* blacklisted and a normal sample that the scores order rightly, a tie
\* counting half.
RocAucScore(scored) ==
    LET positive == {i \in 1 .. Len(scored) : scored[i].true_label = 1}
        negative == {i \in 1 .. Len(scored) : scored[i].true_label = 0}
        above == {p \in positive \X negative :
                     scored[p[1]].risk_score > scored[p[2]].risk_score}
        level == {p \in positive \X negative :
                     scored[p[1]].risk_score = scored[p[2]].risk_score}
    IN  Fraction(2 * Cardinality(above) + Cardinality(level),
                 2 * Cardinality(positive) * Cardinality(negative))

\* The end of main after the loops: with both labels present the AUC is
\* computed and the two files are written; the driver is closed.
MainEvaluates ==
    /\ pc = "for i, uid in enumerate"
    /\ position = Len(uids)
    /\ pc' = "main"
    /\ IF Cardinality({risk_scores[i].true_label :
                          i \in 1 .. Len(risk_scores)}) > 1
       THEN /\ saved' =
                  {[file |-> "model/evaluation_results.json",
                    auc_score |-> RocAucScore(risk_scores),
                    total_samples |-> Len(risk_scores)],
                   [file |-> "model/detailed_predictions.json",
                    detailed_results |-> risk_scores]}
            /\ output' = Append(output, [kind |-> "saved"])
       ELSE /\ saved' = saved
            /\ output' = Append(output, [kind |-> "one label only"])
    /\ closed' = closed + 1
    /\ UNCHANGED <<position, failures, risk_scores, raised, outsideMain>>

NextMain ==
    \/ MainReadsUids
    \/ ScoreNextUid
    \/ ScoreNextUidRaises
    \/ MainEvaluates

SpecMain == InitMain /\ [][NextMain]_vars

\* ------------------------------------------------------ construction

\* The values of max_k_hops a caller constructs with, and the stores: two
\* uids, a phone number and an identity number, chained or not.
HopSettings == {0, 1, 2}

ConstructSnapshots ==
    {BatchSnapshot(relations) :
        relations \in SUBSET {<<1, 2>>, <<2, 3>>, <<3, 4>>}}

\* A weights argument with a weight below 0: blacklisted_phone_num at hop 1
WeightTableWithNegative(k) ==
    [hop \in 1 .. k |->
        IF hop = 1
        THEN [t \in DOMAIN HopWeights(1) |->
                IF t = "blacklisted_phone_num" THEN 0 - 1 ELSE HopWeights(1)[t]]
        ELSE HopWeights(hop)]

WeightSettings(k) == {WeightTable(k), WeightTableWithNegative(k)}

\* No object has been constructed.
InitConstruct ==
    /\ store \in ConstructSnapshots
    /\ max_k_hops = 0
    /\ weights = <<>>
    /\ pc = "not constructed"
    /\ raised = "none"
    /\ start_uid = "k0"
    /\ anomaly_nodes = <<>>
    /\ risk_score = 0
    /\ hop_analyses = <<>>
    /\ case_node = Profile("uid", NoStatus, NoCount)
    /\ node_type = "unclassified"
    /\ uid_analyses = <<>>
    /\ arguments = <<>>
    /\ result = <<>>
    /\ NoBatch

\* AnomalyDetection.__init__(max_k_hops, weights): the driver is made and the
\* two arguments are stored as they are.
NewAnomalyDetection(k, w) ==
    /\ pc = "not constructed"
    /\ pc' = "AnomalyDetection"
    /\ max_k_hops' = k
    /\ weights' = w
    /\ raised' = "none"
    /\ UNCHANGED <<store, start_uid, anomaly_nodes, risk_score, hop_analyses,
                   case_node, node_type, groupVars, batchVars, mainVars>>

\* BlacklistAnalyzer.__init__(max_k_hops)
NewBlacklistAnalyzer(k) ==
    /\ pc = "not constructed"
    /\ pc' = "BlacklistAnalyzer"
    /\ max_k_hops' = k
    /\ raised' = "none"
    /\ UNCHANGED <<store, weights, start_uid, anomaly_nodes, risk_score,
                   hop_analyses, case_node, node_type, groupVars, batchVars,
                   mainVars>>

\* get_risk_score on the AnomalyDetection constructed
ScoreWithConstructed(uid) ==
    /\ pc \in {"AnomalyDetection", "get_risk_score"}
    /\ GetRiskScore(uid)

\* analyze_uid_neighborhood on the BlacklistAnalyzer constructed
AnalyzeWithConstructed(uid) ==
    /\ pc \in {"BlacklistAnalyzer", "analyze_uid_neighborhood"}
    /\ AnalyzeUidNeighborhood(uid)

NextConstruct ==
    \/ \E k \in HopSettings : \E w \in WeightSettings(k) :
          NewAnomalyDetection(k, w)
    \/ \E k \in HopSettings : NewBlacklistAnalyzer(k)
    \/ \E uid \in SeedKeys : ScoreWithConstructed(uid)
    \/ \E uid \in SeedKeys : AnalyzeWithConstructed(uid)

SpecConstruct == InitConstruct /\ [][NextConstruct]_vars

\* ------------------------------------------- scoring with float weights


\* A Python float that is not negative: the natural number whose binary
\* digits are m, lowest digit first, times 2^e.  m is empty for 0 and ends
\* and begins with 1 otherwise, so that equal numbers are equal records.
Significand == 53

RECURSIVE NatBits(_)
NatBits(n) == IF n = 0 THEN <<>> ELSE <<n % 2>> \o NatBits(n \div 2)

RECURSIVE Zeros(_)
Zeros(n) == IF n <= 0 THEN <<>> ELSE <<0>> \o Zeros(n - 1)

\* The digits without their highest zeros
RECURSIVE StripHigh(_)
StripHigh(m) ==
    IF m = <<>> \/ m[Len(m)] = 1 THEN m
    ELSE StripHigh(SubSeq(m, 1, Len(m) - 1))

\* The number with its lowest zeros moved into the exponent
RECURSIVE Normal(_)
Normal(x) ==
    IF x.m = <<>> THEN [m |-> <<>>, e |-> 0]
    ELSE IF x.m[1] = 1 THEN x
    ELSE Normal([m |-> Tail(x.m), e |-> x.e + 1])

\* The sum of two naturals and a carry, digit by digit
RECURSIVE AddBits(_, _, _)
AddBits(a, b, carry) ==
    IF a = <<>> /\ b = <<>> THEN (IF carry = 1 THEN <<1>> ELSE <<>>)
    ELSE LET x == IF a = <<>> THEN 0 ELSE a[1]
             y == IF b = <<>> THEN 0 ELSE b[1]
             s == x + y + carry
         IN  <<s % 2>> \o AddBits(IF a = <<>> THEN a ELSE Tail(a),
                                  IF b = <<>> THEN b ELSE Tail(b),
                                  s \div 2)

\* Rounding to 53 binary digits, to nearest, ties to the even one
RECURSIVE RoundToFloat(_)
RoundToFloat(x) ==
    LET m == StripHigh(x.m)
        d == Len(m) - Significand
    IN  IF d <= 0 THEN Normal([m |-> m, e |-> x.e])
        ELSE LET kept == SubSeq(m, d + 1, Len(m))
                 half == m[d] = 1
                 more == \E i \in 1 .. d - 1 : m[i] = 1
                 up == half /\ (more \/ kept[1] = 1)
             IN  RoundToFloat([m |-> IF up THEN AddBits(kept, <<1>>, 0)
                                     ELSE kept,
                               e |-> x.e + d])

\* x + y of two floats
FloatAdd(x, y) ==
    LET e == IF x.e < y.e THEN x.e ELSE y.e
    IN  RoundToFloat([m |-> AddBits(Zeros(x.e - e) \o x.m,
                                    Zeros(y.e - e) \o y.m, 0),
                      e |-> e])

\* The product of the digits m and a natural n, exactly
RECURSIVE TimesBits(_, _)
TimesBits(m, n) ==
    IF n = 0 THEN <<>> ELSE AddBits(m, TimesBits(m, n - 1), 0)

\* x * n of a float and an int that is not negative
FloatTimes(x, n) == RoundToFloat([m |-> TimesBits(x.m, n), e |-> x.e])

\* float(n) of a small int that is not negative
FloatOf(n) == Normal([m |-> NatBits(n), e |-> 0])

\* The literal 0.1: 0x1999999999999A times 2^-56
RECURSIVE Nines(_)
Nines(n) == IF n = 0 THEN <<>> ELSE <<1, 0, 0, 1>> \o Nines(n - 1)
Tenth == Normal([m |-> <<0, 1, 0, 1>> \o Nines(12) \o <<1>>, e |-> 0 - 56])

\* A weights argument with float values, as the 0.1 of main's table: a shared
\* identity number weighs 1.0 and a shared phone number 0.1 at every hop.
FloatHopWeights ==
    [t \in {"anomalous_identity_no", "anomalous_phone_num"} |->
        IF t = "anomalous_phone_num" THEN Tenth ELSE FloatOf(1)]

FloatWeightTable(k) == [hop \in 1 .. k |-> FloatHopWeights]

\* The body of the scoring loop for one node when the weights are floats.
FloatContribution(node, w) ==
    LET hop_weights == w[(node.hop_distance - 1) + 1]
        weight == DictGet(hop_weights, WeightKey(node), FloatOf(0))
    IN  IF WeightKey(node) = "blacklisted_uid" THEN weight
        ELSE FloatTimes(weight, node.associated_uid_count - 1)

\* risk_score = 0; for node in all_anomaly_nodes: risk_score += ...
RECURSIVE FloatRiskScore(_, _, _)
FloatRiskScore(nodes, w, score) ==
    IF nodes = <<>> THEN score
    ELSE FloatRiskScore(Tail(nodes), w,
                        FloatAdd(score, FloatContribution(Head(nodes), w)))

\* Most calls of get_risk_score a caller makes on one scorer.
MaxCalls == 3

\* The counts of a shared node.
SharedCounts == {2, 3, 4}

\* Snapshots of a uid next to an identity number and two phone numbers that
\* other uids share.
FloatSnapshots ==
    {[label |-> <<"uid", "identity_no", "phone_num", "phone_num">>,
      key |-> [n \in Nodes |-> NodeKeys[n]],
      status |-> [n \in Nodes |-> NoStatus],
      associated_uid_count |-> <<2, c[1], c[2], c[3]>>,
      relations |-> relations] :
        c \in [1 .. 3 -> SharedCounts],
        relations \in SUBSET {<<1, 2>>, <<1, 3>>, <<1, 4>>}}

InitFloat ==
    /\ store \in FloatSnapshots
    /\ max_k_hops = 1
    /\ weights = FloatWeightTable(max_k_hops)
    /\ pc = "constructed"
    /\ start_uid = "k0"
    /\ anomaly_nodes = <<>>
    /\ risk_score = FloatOf(0)
    /\ hop_analyses = <<>>
    /\ case_node = Profile("uid", NoStatus, NoCount)
    /\ node_type = "unclassified"
    /\ raised = "none"
    /\ uid_analyses = <<>>
    /\ arguments = <<>>
    /\ result = <<>>
    /\ NoBatch

\* AnomalyDetection.get_risk_score(session, uid_key) with float weights; the
\* caller keeps the score it was returned.
GetFloatRiskScore(uid) ==
    /\ Len(risk_scores) < MaxCalls
    /\ \E nodes \in FindAnomalyNodesKHop(store, uid, max_k_hops, "anomalous") :
          /\ pc' = "get_risk_score"
          /\ start_uid' = uid
          /\ anomaly_nodes' = nodes
          /\ risk_score' = FloatRiskScore(nodes, weights, FloatOf(0))
          /\ risk_scores' = Append(risk_scores,
                                   [uid |-> uid, risk_score |-> risk_score'])
          /\ hop_analyses' = <<>>
          /\ raised' = "none"
          /\ UNCHANGED <<store, max_k_hops, weights, case_node, node_type,
                         groupVars, batchVars, saved, closed>>

NextFloat == \E uid \in SeedKeys : GetFloatRiskScore(uid)

SpecFloat == InitFloat /\ [][NextFloat]_vars

\* ------------------------------------------------- the two entry points

\* A store without uid node.
NoUidSnapshot ==
    [label |-> <<"phone_num", "identity_no", "phone_num", "identity_no">>,
     key |-> [n \in Nodes |-> NodeKeys[n]],
     status |-> <<NoStatus, "blacklisted", "blacklisted", NoStatus>>,
     associated_uid_count |-> <<2, 5, NoCount, 1>>,
     relations |-> {<<1, 2>>, <<2, 3>>, <<3, 4>>}]

\* The stores of the runs of main: a chain through the two uids, and the
\* store without uid.
EntrySnapshots ==
    {BatchSnapshot({<<1, 2>>, <<2, 3>>, <<3, 4>>}), NoUidSnapshot}

\* MATCH (u:uid) RETURN u.uid_key, COALESCE(u.status = 'blacklisted', false):
\* the rows in the orders the store may return them.
AllUids(g) ==
    LET rows == {<<g.key[n], g.status[n] = "blacklisted">> :
                    n \in {u \in Nodes : g.label[u] = "uid"}}
    IN  {f \in [1 .. Cardinality(rows) -> rows] :
            \A i, j \in 1 .. Cardinality(rows) : i # j => f[i] # f[j]}

\* blacklist_uids and normal_uids of the analyzer's main
BlacklistUids(all_uids) == SelectSeq(all_uids, LAMBDA u : u[2])
NormalUids(all_uids) == SelectSeq(all_uids, LAMBDA u : ~u[2])

\* The lines "开始分析 n 个uid" printed so far: one per batch begun.
BatchesBegun == Len(SelectSeq(output, LAMBDA line : line.kind = "started"))

\* The analyses of the blacklisted and of the normal uids.
BlacklistResult == SelectSeq(batch_analyses, LAMBDA a : a.is_blacklisted)
NormalResult == SelectSeq(batch_analyses, LAMBDA a : ~a.is_blacklisted)

\* An object is constructed and its driver open: the AnomalyDetection of
\* main of model.py, uids holding what its two uid files list, or the
\* BlacklistAnalyzer of main of the analyzer, which reads its uids from the
\* store.
InitEntry ==
    /\ store \in EntrySnapshots
    /\ max_k_hops = MaxHops
    /\ weights = WeightTable(max_k_hops)
    /\ \/ /\ pc = "constructed"
          /\ \E blacklist_uids \in KeyLists, normal_uids \in KeyLists :
                uids = LabelledUids(blacklist_uids, normal_uids)
       \/ /\ pc = "BlacklistAnalyzer"
          /\ uids = <<>>
    /\ position = 0
    /\ batch_analyses = <<>>
    /\ output = <<>>
    /\ failures = {}
    /\ risk_scores = <<>>
    /\ saved = {}
    /\ closed = 0
    /\ raised = "none"
    /\ uid_analyses = <<>>
    /\ arguments = <<>>
    /\ result = <<>>
    /\ start_uid = "k0"
    /\ anomaly_nodes = <<>>
    /\ risk_score = 0
    /\ hop_analyses = <<>>
    /\ case_node = Profile("uid", NoStatus, NoCount)
    /\ node_type = "unclassified"

\* What a step of the analyzer's main leaves alone.
outsideAnalyzerMain ==
    <<store, max_k_hops, weights, start_uid, anomaly_nodes, risk_score,
      hop_analyses, case_node, node_type, groupVars, risk_scores>>

\* An early return that does not pass through the finally clause.
AnalyzerGetsUidsReturnsOpen ==
    /\ pc = "BlacklistAnalyzer"
    /\ \E all_uids \in AllUids(store) :
          /\ uids' = BlacklistUids(all_uids) \o NormalUids(all_uids)
          /\ IF all_uids = <<>>
             THEN /\ pc' = "analyzer main"
                  /\ output' = <<[kind |-> "uids", count |-> 0],
                                 [kind |-> "no uid"]>>
                  /\ closed' = closed
             ELSE /\ pc' = "for uid_key, is_blacklisted in uids"
                  /\ output' =
                        <<[kind |-> "uids", count |-> Len(all_uids)],
                          [kind |-> "found",
                           count |-> Len(BlacklistUids(all_uids))],
                          [kind |-> "started",
                           count |-> Len(BlacklistUids(all_uids))]>>
                  /\ closed' = closed
    /\ UNCHANGED <<position, batch_analyses, failures, saved, raised,
                   outsideAnalyzerMain>>

\* main of the analyzer up to the loop of its first batch: get_all_uids, the
\* return when the store has no uid (the finally clause closes the driver),
\* the split of the uids and the first line of the batch of blacklist_uids.
\* sample_size is min(len(uids), SAMPLE_SIZE // 2): no batch samples.
AnalyzerGetsUids ==
    /\ pc = "BlacklistAnalyzer"
    /\ \E all_uids \in AllUids(store) :
          /\ uids' = BlacklistUids(all_uids) \o NormalUids(all_uids)
          /\ IF all_uids = <<>>
             THEN /\ pc' = "analyzer main"
                  /\ output' = <<[kind |-> "uids", count |-> 0],
                                 [kind |-> "no uid"]>>
                  /\ closed' = closed + 1
             ELSE /\ pc' = "for uid_key, is_blacklisted in uids"
                  /\ output' =
                        <<[kind |-> "uids", count |-> Len(all_uids)],
                          [kind |-> "found",
                           count |-> Len(BlacklistUids(all_uids))],
                          [kind |-> "started",
                           count |-> Len(BlacklistUids(all_uids))]>>
                  /\ closed' = closed
    /\ UNCHANGED <<position, batch_analyses, failures, saved, raised,
                   outsideAnalyzerMain>>

\* get_all_uids raises, the store being out of reach: the handler prints the
\* error and raises it again, the finally clause closes the driver.
AnalyzerGetsUidsRaises ==
    /\ pc = "BlacklistAnalyzer"
    /\ pc' = "analyzer main raised"
    /\ raised' = "Exception"
    /\ output' = <<[kind |-> "error"]>>
    /\ closed' = closed + 1
    /\ UNCHANGED <<uids, position, batch_analyses, failures, saved,
                   outsideAnalyzerMain>>

\* An iteration of the loop of the batch that has begun
AnalyzerAnalyzesNextUid ==
    /\ pc = "for uid_key, is_blacklisted in uids"
    /\ position < Len(BlacklistUids(uids)) \/ BatchesBegun = 2
    /\ \/ AnalyzeNextUid
       \/ AnalyzeNextUidRaises

\* The batch of blacklist_uids returns and that of normal_uids begins.
AnalyzerBeginsNormalBatch ==
    /\ pc = "for uid_key, is_blacklisted in uids"
    /\ position = Len(BlacklistUids(uids))
    /\ BatchesBegun = 1
    /\ output' = output \o
          <<[kind |-> "analysed", count |-> Len(batch_analyses)],
            [kind |-> "started", count |-> Len(NormalUids(uids))]>>
    /\ UNCHANGED <<pc, uids, position, batch_analyses, failures, saved,
                   closed, raised, outsideAnalyzerMain>>

\* The batch of normal_uids returns and main goes on to its end: it returns
\* when no uid could be analysed, else the groups are printed, compared when
\* neither is empty, and exported; the finally clause closes the driver.
AnalyzerReports ==
    /\ pc = "for uid_key, is_blacklisted in uids"
    /\ position = Len(uids)
    /\ BatchesBegun = 2
    /\ pc' = "analyzer main"
    /\ LET analysed == Append(output, [kind |-> "analysed",
                                       count |-> Len(NormalResult)])
       IN  IF batch_analyses = <<>>
           THEN /\ output' = Append(analysed, [kind |-> "no analysis"])
                /\ saved' = saved
           ELSE /\ output' =
                      analysed
                      \o (IF BlacklistResult # <<>>
                          THEN <<[kind |-> "group", name |-> "blacklist"]>>
                          ELSE <<>>)
                      \o (IF NormalResult # <<>>
                          THEN <<[kind |-> "group", name |-> "normal"]>>
                          ELSE <<>>)
                      \o (IF BlacklistResult # <<>> /\ NormalResult # <<>>
                          THEN <<[kind |-> "compared"]>> ELSE <<>>)
                      \o <<[kind |-> "exported"]>>
                /\ saved' = {[file |-> "neighborhood_analysis.json",
                              blacklist_analysis |-> BlacklistResult,
                              normal_analysis |-> NormalResult]}
    /\ closed' = closed + 1
    /\ UNCHANGED <<uids, position, batch_analyses, failures, raised,
                   outsideAnalyzerMain>>

\* The export raises, the file being not writable: nothing is saved, the
\* handler prints the error and raises it again, the driver is closed.
AnalyzerExportRaises ==
    /\ pc = "for uid_key, is_blacklisted in uids"
    /\ position = Len(uids)
    /\ BatchesBegun = 2
    /\ batch_analyses # <<>>
    /\ pc' = "analyzer main raised"
    /\ raised' = "Exception"
    /\ output' = Append(Append(output, [kind |-> "analysed",
                                        count |-> Len(NormalResult)]),
                        [kind |-> "error"])
    /\ closed' = closed + 1
    /\ UNCHANGED <<uids, position, batch_analyses, failures, saved,
                   outsideAnalyzerMain>>

NextEntry ==
    \/ MainReadsUids
    \/ ScoreNextUid
    \/ ScoreNextUidRaises
    \/ MainEvaluates
    \/ AnalyzerGetsUids
    \/ AnalyzerGetsUidsRaises
    \/ AnalyzerAnalyzesNextUid
    \/ AnalyzerBeginsNormalBatch
    \/ AnalyzerReports
    \/ AnalyzerExportRaises

\* Either main is one thread that takes its next step as long as it has one.
SpecEntry == InitEntry /\ [][NextEntry]_vars /\ WF_vars(NextEntry)

\* ================================================================ claims

\* ------------------------------------------------- vocabulary of the claims

\* The neighbours of n, relationships taken in both directions.
Neighbours(g, n) ==
    {m \in Nodes : <<n, m>> \in g.relations \/ <<m, n>> \in g.relations}

\* The nodes within d undirected hops of s.
RECURSIVE Within(_, _, _)
Within(g, s, d) ==
    IF d = 0 THEN {s}
    ELSE LET inner == Within(g, s, d - 1)
         IN  inner \cup UNION {Neighbours(g, n) : n \in inner}

\* The length of the shortest undirected path from s to n, for n reachable.
Distance(g, s, n) ==
    CHOOSE d \in 0 .. Cardinality(Nodes) :
        /\ n \in Within(g, s, d)
        /\ d = 0 \/ n \notin Within(g, s, d - 1)

\* An operation has run for a uid the store holds; Seed is that uid node.
Explored == pc \in {"get_risk_score", "analyze_uid_neighborhood"}
SeedExists == StartNodes(store, start_uid) # {}
Seed == CHOOSE s \in Nodes : s \in StartNodes(store, start_uid)

\* The entries of the returned list that stand for node n.
EntriesOf(n) ==
    {i \in 1 .. Len(anomaly_nodes) :
        /\ anomaly_nodes[i].label = store.label[n]
        /\ anomaly_nodes[i].node_key = store.label[n] \o "_" \o store.key[n]}

\* The stored count of n as the query returns it: an absent count reads 0.
StoredCount(n) ==
    IF store.associated_uid_count[n] = NoCount THEN 0
    ELSE store.associated_uid_count[n]

RECURSIVE Sum(_, _)
Sum(f, S) ==
    IF S = {} THEN 0
    ELSE LET x == CHOOSE y \in S : TRUE IN f[x] + Sum(f, S \ {x})

\* C1: the returned list holds each (label, key) node at most once, every
\* entry stands for a node of the store, and its hop_distance is the length
\* of the shortest undirected path from the seed to that node, between 1
\* and K, also when longer paths of at most K relationships reach the node.
C1_UniqueAtShortestHop ==
    Explored =>
        /\ \A n \in Nodes : Cardinality(EntriesOf(n)) <= 1
        /\ \A i \in 1 .. Len(anomaly_nodes) :
              /\ SeedExists
              /\ \E n \in Nodes :
                    /\ i \in EntriesOf(n)
                    /\ n \in Within(store, Seed, max_k_hops)
                    /\ anomaly_nodes[i].hop_distance = Distance(store, Seed, n)
              /\ anomaly_nodes[i].hop_distance \in 1 .. max_k_hops

\* C1's case: a returned node that a longer path of at most K relationships
\* reaches as well.
C1_Witness ==
    /\ Explored /\ SeedExists
    /\ \E n \in Nodes : \E i \in EntriesOf(n) :
          \E p \in PathEnds(store, Seed, {}, max_k_hops) :
              p[1] = n /\ p[2] > anomaly_nodes[i].hop_distance

\* The classification the claims describe, rule by rule.
Rule1(l, s) == l \in {"uid", "phone_num", "identity_no"} /\ s = "blacklisted"
Rule2(l, c) == l # "uid" /\ c # NoCount /\ c > 1

\* C2: rule 1 wins also when the count is above 1; otherwise rule 2 gives
\* anomalous (named common by the analyzer); every other node is normal,
\* a blacklisted status on another label included.
C2_RulesInOrder ==
    LET l == case_node.label
        s == case_node.status
        c == case_node.associated_uid_count
        anomalous == IF pc = "model.py" THEN "anomalous" ELSE "common"
    IN  pc \in {"model.py", "blacklist_anomaly_analyzer.py"} =>
            /\ Rule1(l, s) => node_type = "blacklisted"
            /\ ~Rule1(l, s) /\ Rule2(l, c) => node_type = anomalous
            /\ ~Rule1(l, s) /\ ~Rule2(l, c) => node_type = "normal"
            /\ (s = "blacklisted" /\ l \notin {"uid", "phone_num", "identity_no"}
                    /\ (c = NoCount \/ c <= 1)) => node_type = "normal"

\* C2's case: a blacklisted phone number shared by several uids.
C2_Witness ==
    /\ pc = "model.py"
    /\ case_node = Profile("phone_num", "blacklisted", 5)
    /\ node_type = "blacklisted"

\* What the claims say one returned node adds to the score.
Multiplier(a) ==
    IF a.node_type \o "_" \o a.label = "blacklisted_uid" THEN 1
    ELSE a.associated_uid_count - 1

WeightOf(a) ==
    LET table == weights[a.hop_distance]
        k == a.node_type \o "_" \o a.label
    IN  IF k \in DOMAIN table THEN table[k] ELSE 0

Terms == [i \in 1 .. Len(anomaly_nodes) |->
            WeightOf(anomaly_nodes[i]) * Multiplier(anomaly_nodes[i])]

\* C3: the score is the sum over the returned nodes of weight times
\* multiplier; a single 1-hop anomalous_phone_num node with count 5 and
\* weight 1 gives 4.
C3_ScoreIsWeightedSum ==
    pc = "get_risk_score" =>
        /\ risk_score = Sum(Terms, 1 .. Len(anomaly_nodes))
        /\ ( /\ Len(anomaly_nodes) = 1
             /\ anomaly_nodes[1].hop_distance = 1
             /\ anomaly_nodes[1].node_type = "anomalous"
             /\ anomaly_nodes[1].label = "phone_num"
             /\ anomaly_nodes[1].associated_uid_count = 5
             /\ weights[1]["anomalous_phone_num"] = 1 ) => risk_score = 4

\* C3's case: the single shared phone number one hop away.
C3_Witness ==
    /\ pc = "get_risk_score"
    /\ Len(anomaly_nodes) = 1
    /\ anomaly_nodes[1].hop_distance = 1
    /\ anomaly_nodes[1].node_type = "anomalous"
    /\ anomaly_nodes[1].label = "phone_num"
    /\ anomaly_nodes[1].associated_uid_count = 5
    /\ risk_score = 4

\* The counts an associated_uid_count is changed to when two snapshots are
\* compared: absent, 1 and a count above every stored one.
OtherCounts == {NoCount, 1, 9}

\* What the explorer tells about the nodes: who is returned, as what, where.
Findings(nodes) ==
    {<<nodes[i].node_key, nodes[i].node_type, nodes[i].hop_distance>> :
        i \in 1 .. Len(nodes)}

UidEntries == {i \in 1 .. Len(anomaly_nodes) : anomaly_nodes[i].label = "uid"}

BlacklistedUidWeight == [i \in 1 .. Len(anomaly_nodes) |->
    LET table == weights[anomaly_nodes[i].hop_distance]
    IN  IF "blacklisted_uid" \in DOMAIN table THEN table["blacklisted_uid"]
        ELSE 0]

\* C4: a returned uid node adds exactly the blacklisted_uid weight of its
\* hop, and changing the associated_uid_count of a uid node of the snapshot
\* changes neither what is returned as what at which hop nor the score.
C4_UidCountIrrelevant ==
    pc = "get_risk_score" =>
        /\ risk_score =
              Sum(Terms, (1 .. Len(anomaly_nodes)) \ UidEntries)
                + Sum(BlacklistedUidWeight, UidEntries)
        /\ \A n \in {m \in Nodes : store.label[m] = "uid"} :
           \A c \in OtherCounts :
              LET other == [store EXCEPT !.associated_uid_count[n] = c]
              IN  \A nodes \in FindAnomalyNodesKHop(other, start_uid,
                                                    max_k_hops, "anomalous") :
                      /\ Findings(nodes) = Findings(anomaly_nodes)
                      /\ RiskScore(nodes, weights, 0) = risk_score

\* C4's case: a blacklisted uid with a count of 5 is returned at a hop that
\* weights blacklisted_uid.
C4_Witness ==
    /\ pc = "get_risk_score"
    /\ \E i \in UidEntries :
          /\ anomaly_nodes[i].associated_uid_count = 5
          /\ BlacklistedUidWeight[i] = 10
    /\ risk_score > 0

\* The detailed types of the hop statistics.
StatsKeys ==
    UNION {{hop_analyses[h].value.anomaly_stats_by_type[j].key :
                j \in 1 .. Len(hop_analyses[h].value.anomaly_stats_by_type)} :
           h \in 1 .. Len(hop_analyses)}

\* C5: every returned uid node is blacklisted, whatever its count, and no
\* hop statistic or weight lookup is keyed anomalous_uid or common_uid.
C5_UidNeverAnomalous ==
    Explored =>
        /\ \A i \in UidEntries : anomaly_nodes[i].node_type = "blacklisted"
        /\ \A i \in 1 .. Len(anomaly_nodes) :
              WeightKey(anomaly_nodes[i]) \notin {"anomalous_uid", "common_uid"}
        /\ StatsKeys \cap {"anomalous_uid", "common_uid"} = {}

\* C5's case: a uid with a count above 1 and no blacklisted status lies
\* within K hops of the seed, next to nodes that are returned.
C5_Witness ==
    /\ pc = "analyze_uid_neighborhood" /\ SeedExists
    /\ \E n \in Within(store, Seed, max_k_hops) \ {Seed} :
          /\ store.label[n] = "uid"
          /\ store.status[n] = NoStatus
          /\ store.associated_uid_count[n] > 1
    /\ StatsKeys # {}

\* The nodes other than the seed within K hops of it that the three rules
\* classify as blacklisted or anomalous.
Suspicious ==
    {n \in Within(store, Seed, max_k_hops) \ {Seed} :
        \/ Rule1(store.label[n], store.status[n])
        \/ Rule2(store.label[n], store.associated_uid_count[n])}

ReturnedKeys == {anomaly_nodes[i].node_key : i \in 1 .. Len(anomaly_nodes)}

KeysOf(S) == {store.label[n] \o "_" \o store.key[n] : n \in S}

\* C6 as stated: the output is exactly the suspicious nodes other than the
\* seed within K hops.
C6_ExactlySuspicious ==
    Explored /\ SeedExists => ReturnedKeys = KeysOf(Suspicious)

\* C6, amended: the output is exactly the suspicious nodes other than the
\* seed within K hops whose label is in the catalog; the seed and the
\* nodes classified normal are never in it.
C6_ExactlySuspiciousOfCatalog ==
    Explored /\ SeedExists =>
        /\ ReturnedKeys =
              KeysOf({n \in Suspicious : store.label[n] \in ALL_NODE_LABELS})
        /\ EntriesOf(Seed) = {}

\* C6's case: a cycle leads back to a blacklisted seed, a node classified
\* normal lies within K hops, and some node is returned.
C6_Witness ==
    /\ Explored /\ SeedExists
    /\ store.status[Seed] = "blacklisted"
    /\ \E p \in PathEnds(store, Seed, {}, max_k_hops) : p[1] = Seed
    /\ Within(store, Seed, max_k_hops) \ (Suspicious \cup {Seed}) # {}
    /\ anomaly_nodes # <<>>

\* The node of the store an entry of the returned list stands for.
NodeOf(i) == CHOOSE n \in Nodes : i \in EntriesOf(n)

\* The returned blacklisted phone numbers and identity numbers whose stored
\* count is at most 1 or absent.
LowCountEntries ==
    {i \in 1 .. Len(anomaly_nodes) :
        /\ anomaly_nodes[i].node_type = "blacklisted"
        /\ anomaly_nodes[i].label \in {"phone_num", "identity_no"}
        /\ StoredCount(NodeOf(i)) <= 1}

Unclamped == [i \in 1 .. Len(anomaly_nodes) |->
    WeightOf(anomaly_nodes[i]) * (StoredCount(NodeOf(i)) - 1)]

\* C7: a returned blacklisted phone_num or identity_no node with stored
\* count c <= 1 (absent read as 0) adds weight * (c - 1) to the score: 0
\* for c = 1, minus the weight for c = 0.
C7_MultiplierNotClamped ==
    pc = "get_risk_score" =>
        /\ risk_score =
              Sum(Terms, (1 .. Len(anomaly_nodes)) \ LowCountEntries)
                + Sum(Unclamped, LowCountEntries)
        /\ \A i \in LowCountEntries :
              /\ StoredCount(NodeOf(i)) = 1 => Unclamped[i] = 0
              /\ StoredCount(NodeOf(i)) = 0 =>
                    Unclamped[i] = 0 - WeightOf(anomaly_nodes[i])
        /\ anomaly_nodes # <<>> /\ LowCountEntries = 1 .. Len(anomaly_nodes)
              => risk_score <= 0

\* C7's case: a blacklisted phone number without a count makes the score
\* negative although no weight is.
C7_Witness ==
    /\ pc = "get_risk_score"
    /\ \E i \in LowCountEntries :
          /\ store.associated_uid_count[NodeOf(i)] = NoCount
          /\ WeightOf(anomaly_nodes[i]) > 0
    /\ risk_score < 0
    /\ \A h \in 1 .. Len(weights) : \A k \in DOMAIN weights[h] :
          weights[h][k] >= 0

\* The returned nodes whose detailed type is a key of their hop's mapping.
WeightedEntries ==
    {i \in 1 .. Len(anomaly_nodes) :
        anomaly_nodes[i].node_type \o "_" \o anomaly_nodes[i].label
            \in DOMAIN weights[anomaly_nodes[i].hop_distance]}

Keyed == [i \in 1 .. Len(anomaly_nodes) |->
    weights[anomaly_nodes[i].hop_distance]
           [anomaly_nodes[i].node_type \o "_" \o anomaly_nodes[i].label]
        * Multiplier(anomaly_nodes[i])]

\* C8: a returned node whose detailed type is no key of the mapping of its
\* hop adds 0; the score is the sum over the other returned nodes.
C8_UnknownKeyWeighsZero ==
    pc = "get_risk_score" => risk_score = Sum(Keyed, WeightedEntries)

\* C8's case: one returned node has no weight at its hop, another one has
\* and makes the score.
C8_Witness ==
    /\ pc = "get_risk_score"
    /\ WeightedEntries # {}
    /\ WeightedEntries # 1 .. Len(anomaly_nodes)
    /\ risk_score # 0

\* The hops at which a node was returned.
HopsFound == {anomaly_nodes[i].hop_distance : i \in 1 .. Len(anomaly_nodes)}

\* C9: the hop mapping has the keys 1..K in ascending order, and the entry
\* of a hop without anomaly node has total 0 and no type statistics.
C9_EveryHopPresent ==
    pc = "analyze_uid_neighborhood" =>
        /\ DictKeys(hop_analyses) = [h \in 1 .. max_k_hops |-> h]
        /\ \A h \in 1 .. max_k_hops :
              /\ hop_analyses[h].value.hop_distance = h
              /\ h \notin HopsFound =>
                    /\ hop_analyses[h].value.total_anomaly_nodes = 0
                    /\ hop_analyses[h].value.anomaly_stats_by_type = <<>>

\* C9's case: nodes were found at a later hop and none at an earlier one.
C9_Witness ==
    /\ pc = "analyze_uid_neighborhood"
    /\ \E h, j \in 1 .. max_k_hops :
          h < j /\ h \notin HopsFound /\ j \in HopsFound

\* C10: for a seed of the store with no node within K hops, the list is
\* empty, the hop mapping has K entries of total 0, and the score is 0.
C10_IsolatedSeed ==
    Explored /\ SeedExists /\ Within(store, Seed, max_k_hops) = {Seed} =>
        /\ anomaly_nodes = <<>>
        /\ pc = "analyze_uid_neighborhood" =>
              /\ Len(hop_analyses) = max_k_hops
              /\ \A h \in 1 .. Len(hop_analyses) :
                    hop_analyses[h].value.total_anomaly_nodes = 0
        /\ pc = "get_risk_score" => risk_score = 0

\* C10's case: the hops of a seed without relationship were aggregated.
C10_Witness ==
    /\ pc = "analyze_uid_neighborhood" /\ SeedExists
    /\ Neighbours(store, Seed) = {}
    /\ store.relations # {}
    /\ Len(hop_analyses) = max_k_hops

\* C11: exploring or scoring a seed key for which the store holds no uid
\* node fails with NotFound, and returns neither a list nor a score.
C11_MissingSeedNotFound ==
    Explored /\ ~SeedExists => raised = "NotFound"

\* ------------------------------------ vocabulary of the claims on groups

\* The members of the group, the blacklisted ones, and a member's total
\* over all its hops.
Members == 1 .. Len(uid_analyses)
Blacklisted == {i \in Members : uid_analyses[i].is_blacklisted}
HopsOf(i) == 1 .. Len(uid_analyses[i].hop_analyses)
MemberTotal(i) ==
    Sum([h \in HopsOf(i) |->
            uid_analyses[i].hop_analyses[h].value.total_anomaly_nodes],
        HopsOf(i))
IsolatedAt(t) == {i \in Blacklisted : MemberTotal(i) <= t}
IsolationAsked == pc = "get_isolated_blacklist_stats"

\* C12: get_isolated_blacklist_stats(threshold) lists exactly the
\* blacklisted members whose total over all hops is at most threshold, counts
\* only blacklisted members, and returns what it returns for the group
\* without its members that are not blacklisted.
C12_IsolatedAmongBlacklisted ==
    IsolationAsked =>
        LET t == arguments[1]
            listed == result.isolated_uid_list
        IN  /\ {listed[j].uid_key : j \in 1 .. Len(listed)}
                  = {uid_analyses[i].uid_key : i \in IsolatedAt(t)}
            /\ Len(listed) = Cardinality(IsolatedAt(t))
            /\ result.total_blacklist_uids = Cardinality(Blacklisted)
            /\ result.isolated_blacklist_uids = Cardinality(IsolatedAt(t))
            /\ result.non_isolated_stats.count
                  = Cardinality(Blacklisted \ IsolatedAt(t))
            /\ result = IsolatedBlacklistStats(
                           SelectSeq(uid_analyses, LAMBDA a : a.is_blacklisted), t)

\* C12's case: the group has a blacklisted member at the threshold, one
\* above it, and a member below it that is not blacklisted.
C12_Witness ==
    /\ IsolationAsked
    /\ \E i, j \in Blacklisted :
          MemberTotal(i) = arguments[1] /\ MemberTotal(j) > arguments[1]
    /\ \E i \in Members \ Blacklisted : MemberTotal(i) < arguments[1]

\* C13: for every group and threshold, the isolation rate lies in [0, 1],
\* the isolated and the non-isolated members add up to the blacklisted
\* ones, and the rate is isolated / total when there is a blacklisted member.
C13_IsolationBounds ==
    IsolationAsked =>
        LET rate == result.isolation_rate
            total == result.total_blacklist_uids
            isolated == result.isolated_blacklist_uids
        IN  /\ rate.den > 0
            /\ 0 <= rate.num /\ rate.num <= rate.den
            /\ isolated + result.non_isolated_stats.count = total
            /\ total > 0 => rate.num * total = isolated * rate.den

\* C13's case: some blacklisted members are isolated and some are not.
C13_Witness ==
    /\ IsolationAsked
    /\ 0 < result.isolated_blacklist_uids
    /\ result.isolated_blacklist_uids < result.total_blacklist_uids
    /\ result.isolation_rate.den = 3

\* C14: for every group and threshold, a group without blacklisted member
\* included, the isolation result reports the count, mean, max and min of
\* the totals of the blacklisted members above the threshold, each 0 when
\* there is none; totals [0, 1, 5] at threshold 2 give 2 isolated, rate 2/3
\* and mean = max = min = 5.
C14_NonIsolatedStatsReported ==
    IsolationAsked =>
        LET stats == result.non_isolated_stats
            above == Blacklisted \ IsolatedAt(arguments[1])
            totals == [i \in above |-> MemberTotal(i)]
        IN  /\ {"count", "avg_total_anomaly_nodes", "max_total_anomaly_nodes",
                "min_total_anomaly_nodes"} \subseteq DOMAIN stats
            /\ stats.count = Cardinality(above)
            /\ above = {} =>
                  /\ stats.avg_total_anomaly_nodes = Zero
                  /\ stats.max_total_anomaly_nodes = 0
                  /\ stats.min_total_anomaly_nodes = 0
            /\ above # {} =>
                  /\ stats.avg_total_anomaly_nodes.num * Cardinality(above)
                        = Sum(totals, above) * stats.avg_total_anomaly_nodes.den
                  /\ \E i \in above : stats.max_total_anomaly_nodes = totals[i]
                  /\ \E i \in above : stats.min_total_anomaly_nodes = totals[i]
                  /\ \A i \in above :
                        /\ totals[i] <= stats.max_total_anomaly_nodes
                        /\ stats.min_total_anomaly_nodes <= totals[i]
            /\ /\ Blacklisted = Members
               /\ Len(uid_analyses) = 3
               /\ {MemberTotal(i) : i \in Members} = {0, 1, 5}
               /\ arguments[1] = 2
               => /\ result.isolated_blacklist_uids = 2
                  /\ result.isolation_rate = Fraction(2, 3)
                  /\ stats.avg_total_anomaly_nodes = Fraction(5, 1)
                  /\ stats.max_total_anomaly_nodes = 5
                  /\ stats.min_total_anomaly_nodes = 5

\* The operation was given a group without blacklisted member: the group
\* itself, or the second group of a comparison.
EmptyInput ==
    /\ pc # "constructed"
    /\ \/ Blacklisted = {}
       \/ /\ pc = "compare_groups"
          /\ \A i \in 1 .. Len(arguments[1]) : ~arguments[1][i].is_blacklisted

\* C15: no operation on a group raises when the group has no member or no
\* blacklisted member; its isolation result has total 0, rate 0.0 and an
\* empty isolated list.
C15_EmptyGroupsNeverRaise ==
    EmptyInput =>
        /\ raised = "none"
        /\ IsolationAsked /\ Blacklisted = {} =>
              /\ result.total_blacklist_uids = 0
              /\ result.isolation_rate = Zero
              /\ result.isolated_uid_list = <<>>

\* C15's case: two groups without member were compared.
C15_Witness ==
    /\ pc = "compare_groups"
    /\ uid_analyses = <<>> /\ arguments[1] = <<>>
    /\ result.rows = <<>> /\ result.total_ratio = Inf

\* The number of nodes of a detailed type that member i has at a hop.
CountAt(i, hop, detailed_type) ==
    LET by_hop == uid_analyses[i].hop_analyses IN
    IF HasKey(by_hop, hop)
       /\ HasKey(DictValue(by_hop, hop).anomaly_stats_by_type, detailed_type)
    THEN DictValue(DictValue(by_hop, hop).anomaly_stats_by_type,
                   detailed_type).count
    ELSE 0

\* C16: in the result of get_type_distribution_by_hop, the list of every
\* hop and detailed type has one entry per uid of the group, in order, 0 for
\* a uid without node of that type at that hop.
C16_CountsZeroFilled ==
    pc = "get_type_distribution_by_hop" =>
        \A h \in 1 .. Len(result) : \A t \in 1 .. Len(result[h].value) :
            LET counts == result[h].value[t].value IN
            /\ Len(counts) = Len(uid_analyses)
            /\ \A i \in Members :
                  counts[i] = CountAt(i, result[h].key, result[h].value[t].key)

\* A member's total at a hop, 0 when its analysis has no entry for the hop.
TotalAt(i, hop) ==
    LET by_hop == uid_analyses[i].hop_analyses IN
    IF HasKey(by_hop, hop) THEN DictValue(by_hop, hop).total_anomaly_nodes
    ELSE 0

AveragesA == AvgAnomalyNodesByHop(uid_analyses)
AveragesB == AvgAnomalyNodesByHop(arguments[1])
HopSet(averages) == {averages[i].key : i \in 1 .. Len(averages)}
AverageAt(averages, hop) ==
    IF hop \in HopSet(averages)
    THEN (CHOOSE e \in {averages[i] : i \in 1 .. Len(averages)} :
              e.key = hop).value
    ELSE Zero
IsQuotient(q, a, b) ==
    IF b.num > 0 THEN q.den > 0 /\ q.num * a.den * b.num = a.num * b.den * q.den
    ELSE q = Inf
Compared == pc = "compare_groups" /\ raised = "none"

\* C18: compare_groups has one ratio for every hop of either group, a hop a
\* group lacks counting as average 0: average(A) / average(B) when
\* average(B) > 0 and +infinity when it is 0, whatever average(A); the
\* overall ratio is the same quotient of the sums of the per-hop averages.
C18_RatiosWithSentinel ==
    Compared =>
        /\ {result.rows[i].hop : i \in 1 .. Len(result.rows)}
              = HopSet(AveragesA) \cup HopSet(AveragesB)
        /\ Len(result.rows) = Cardinality(HopSet(AveragesA) \cup HopSet(AveragesB))
        /\ \A i \in 1 .. Len(result.rows) :
              IsQuotient(result.rows[i].ratio,
                         AverageAt(AveragesA, result.rows[i].hop),
                         AverageAt(AveragesB, result.rows[i].hop))
        /\ IsQuotient(result.total_ratio,
                      SumFractions([i \in 1 .. Len(AveragesA) |-> AveragesA[i].value]),
                      SumFractions([i \in 1 .. Len(AveragesB) |-> AveragesB[i].value]))

\* C18's case: at one hop both averages are 0, at another both are positive.
C18_Witness ==
    /\ Compared
    /\ \E i, j \in 1 .. Len(result.rows) :
          /\ result.rows[i].bl_avg = Zero /\ result.rows[i].normal_avg = Zero
          /\ result.rows[i].ratio = Inf
          /\ result.rows[j].normal_avg.num > 0
          /\ result.rows[j].ratio.num > 0
          /\ result.rows[j].ratio.den > 0

\* ------------------------------------- vocabulary of the claims on batches

\* The batch has returned, and it has run over the list it was given.
BatchReturned == pc = "batch_analyze_neighborhoods"
NotSampled == \A i \in 1 .. Len(output) : output[i].kind # "sampled"

\* The positions of the list at which the analysis did not raise, in order,
\* and the analyses an exploration of the seed at a position can give.
Succeeded == Sorted((1 .. Len(uids)) \ failures)
AnalysesOf(i) ==
    {UidNeighborhoodAnalysis(uids[i][1], uids[i][2],
                             HopAnalyses(nodes, max_k_hops)) :
        nodes \in FindAnomalyNodesKHop(store, uids[i][1], max_k_hops, "common")}
Lines(kind) == SelectSeq(output, LAMBDA line : line.kind = kind)

MainEnded == pc \in {"main", "main raised"}

\* C20: in main of model.py an error raised while scoring a seed stays with
\* that seed: main does not raise, every seed at which no error was raised
\* is scored, and with both labels among the seeds scored the scores are
\* evaluated and saved.
C20_ScoringErrorContained ==
    MainEnded =>
        /\ raised = "none"
        /\ Len(risk_scores) = Len(uids) - Cardinality(failures)
        /\ Cardinality({uids[i][2] : i \in (1 .. Len(uids)) \ failures}) > 1
              => Cardinality(saved) = 2

\* ------------------------------- vocabulary of the claims on construction

\* The configuration has max_k_hops below 1 or a weight below 0.
NegativeWeight ==
    \E hop \in DOMAIN weights : \E t \in DOMAIN weights[hop] :
        weights[hop][t] < 0
BadConfiguration == max_k_hops < 1 \/ NegativeWeight

\* C21: a configuration with max_k_hops below 1 or with a negative weight is
\* rejected with ConfigurationError when the analyzer or the scorer is
\* constructed, and no seed is explored or scored with it.
C21_BadConfigurationRejected ==
    pc # "not constructed" /\ BadConfiguration =>
        /\ raised = "ConfigurationError"
        /\ ~Explored

\* ------------------------------- more claims on the explorer and scorer

\* The sort key of a listed node, and the order of two keys.
SortKey(n) == <<n.hop_distance, TypeRank(n.node_type), LabelRank(n.label)>>
KeyAtMost(a, b) ==
    \/ a[1] < b[1]
    \/ a[1] = b[1] /\ a[2] < b[2]
    \/ a[1] = b[1] /\ a[2] = b[2] /\ a[3] <= b[3]

\* C22: the list find_anomaly_nodes_k_hop returns is in non-decreasing order
\* of (hop_distance, node_type, label), rows dropped as duplicates or not.
C22_ListSorted ==
    Explored =>
        \A i, j \in 1 .. Len(anomaly_nodes) :
            i < j => KeyAtMost(SortKey(anomaly_nodes[i]), SortKey(anomaly_nodes[j]))

\* C22's case: a node matched at two path lengths was listed once, among
\* nodes that differ in hop, in type at one hop, and in label at one hop
\* and type.
C22_Witness ==
    /\ Explored
    /\ \E p, q \in MatchedPaths(store, start_uid, max_k_hops) :
          p[1] = q[1] /\ p[2] # q[2]
    /\ \E i, j \in 1 .. Len(anomaly_nodes) :
          /\ anomaly_nodes[i].hop_distance = anomaly_nodes[j].hop_distance
          /\ anomaly_nodes[i].node_type # anomaly_nodes[j].node_type
    /\ \E i, j \in 1 .. Len(anomaly_nodes) :
          anomaly_nodes[i].hop_distance < anomaly_nodes[j].hop_distance

\* C23: get_risk_score is deterministic: every call for the same seed on the
\* same snapshot, weights and max_k_hops returns the same score, whatever
\* order the store returns tied rows in and whatever seeds were scored in
\* between.
C23_SameScoreEveryCall ==
    \A i, j \in 1 .. Len(risk_scores) :
        risk_scores[i].uid = risk_scores[j].uid
            => risk_scores[i].risk_score = risk_scores[j].risk_score

\* C24: for every retained node, the detailed type under which the hop
\* aggregation groups it is the string the risk scorer looks up in the weight
\* table for that node: its classification, "_" and its label.
C24_AggregationKeyIsWeightKey ==
    pc = "analyze_uid_neighborhood" =>
        \A i \in 1 .. Len(anomaly_nodes) :
            \A scored \in FindAnomalyNodesKHop(store, start_uid, max_k_hops,
                                               "anomalous") :
                \A j \in 1 .. Len(scored) :
                    scored[j].node_key = anomaly_nodes[i].node_key
                        => WeightKey(scored[j]) = DetailedType(anomaly_nodes[i])

\* The retained nodes at a hop that the aggregation groups under a type.
NodesOfType(hop, detailed_type) ==
    SelectSeq(anomaly_nodes,
              LAMBDA n : n.hop_distance = hop /\ DetailedType(n) = detailed_type)

Magnitudes(nodes) ==
    SelectSeq([i \in 1 .. Len(nodes) |-> nodes[i].associated_uid_count],
              LAMBDA c : c > 0)

TypeStats(hop) == hop_analyses[hop].value.anomaly_stats_by_type

\* C25: at every hop of a seed's analysis each detailed type present has the
\* count of the retained nodes of that type at that hop and, in order, the
\* associated_uid_count of those of them whose count is above 0; only types
\* with a node appear, the hop's total is the sum of its per-type counts and
\* the totals of all hops sum to the number of nodes the explorer returned.
C25_HopAggregation ==
    pc = "analyze_uid_neighborhood" =>
        /\ \A hop \in 1 .. Len(hop_analyses) :
              /\ hop_analyses[hop].key = hop
              /\ \A i \in 1 .. Len(TypeStats(hop)) :
                    LET stats == TypeStats(hop)[i].value
                        nodes == NodesOfType(hop, TypeStats(hop)[i].key)
                    IN  /\ stats.count = Len(nodes)
                        /\ stats.count >= 1
                        /\ stats.uid_association_counts = Magnitudes(nodes)
                        /\ \A j \in 1 .. Len(TypeStats(hop)) :
                              TypeStats(hop)[j].key = TypeStats(hop)[i].key
                                  => i = j
              /\ \A n \in 1 .. Len(anomaly_nodes) :
                    anomaly_nodes[n].hop_distance = hop
                        => HasKey(TypeStats(hop), DetailedType(anomaly_nodes[n]))
              /\ hop_analyses[hop].value.total_anomaly_nodes
                    = SumSeq([i \in 1 .. Len(TypeStats(hop)) |->
                                TypeStats(hop)[i].value.count])
        /\ SumSeq([hop \in 1 .. Len(hop_analyses) |->
                     hop_analyses[hop].value.total_anomaly_nodes])
              = Len(anomaly_nodes)

\* An analysis over several hops, one of them without nodes, with a type of
\* two nodes one of which has count 0 and is left out of the list.
C25_Witness ==
    /\ pc = "analyze_uid_neighborhood"
    /\ \E h1, h2 \in 1 .. Len(hop_analyses) :
          /\ hop_analyses[h1].value.total_anomaly_nodes > 0
          /\ hop_analyses[h2].value.total_anomaly_nodes = 0
    /\ \E hop \in 1 .. Len(hop_analyses) :
          \E i \in 1 .. Len(TypeStats(hop)) :
              /\ TypeStats(hop)[i].value.count >= 2
              /\ Len(TypeStats(hop)[i].value.uid_association_counts)
                    < TypeStats(hop)[i].value.count

\* The magnitudes of the nodes of a detailed type that member i has at a hop.
MagnitudesAt(i, hop, detailed_type) ==
    LET by_hop == uid_analyses[i].hop_analyses IN
    IF HasKey(by_hop, hop)
       /\ HasKey(DictValue(by_hop, hop).anomaly_stats_by_type, detailed_type)
    THEN DictValue(DictValue(by_hop, hop).anomaly_stats_by_type,
                   detailed_type).uid_association_counts
    ELSE <<>>

\* C26: for every hop and detailed type, the result of
\* get_uid_association_distribution_by_hop is one flat list of the individual
\* associated_uid_count magnitudes of the nodes of that type at that hop over
\* all uids of the group: it has one element per such node.
C26_FlatMagnitudeList ==
    pc = "get_uid_association_distribution_by_hop" =>
        \A h \in 1 .. Len(result) : \A t \in 1 .. Len(result[h].value) :
            Len(result[h].value[t].value)
                = SumSeq([i \in Members |->
                            Len(MagnitudesAt(i, result[h].key,
                                             result[h].value[t].key))])

\* The nodes whose label is outside the catalog, the store without their
\* relationships, and the suspicious catalog nodes that no path from the
\* seed reaches without passing through one of them.
OutsideCatalog == {n \in Nodes : store.label[n] \notin ALL_NODE_LABELS}
WithoutOutside ==
    [store EXCEPT !.relations =
        {r \in @ : r[1] \notin OutsideCatalog /\ r[2] \notin OutsideCatalog}]
BehindOutside ==
    {n \in Suspicious \ OutsideCatalog :
        n \notin Within(WithoutOutside, Seed, Cardinality(Nodes))}

\* C27: a node whose label is outside the catalog never appears in the
\* explorer's output and never aborts the exploration, and traversal
\* continues through it: a catalog node whose only paths from the seed pass
\* through such a node is still reported, at the hop distance counted along
\* those paths.
C27_OutsideCatalogPassedThrough ==
    Explored =>
        /\ raised = "none"
        /\ \A n \in OutsideCatalog : EntriesOf(n) = {}
        /\ \A i \in 1 .. Len(anomaly_nodes) :
              anomaly_nodes[i].label \in ALL_NODE_LABELS
        /\ SeedExists =>
              \A n \in BehindOutside :
                  \E i \in EntriesOf(n) :
                      anomaly_nodes[i].hop_distance = Distance(store, Seed, n)

\* C27's case: a node is reported that only paths through a node outside
\* the catalog reach, and that node itself is suspicious.
C27_Witness ==
    /\ Explored /\ SeedExists
    /\ BehindOutside # {}
    /\ \E n \in OutsideCatalog :
          /\ n \in Within(store, Seed, max_k_hops)
          /\ store.associated_uid_count[n] > 1

\* The batch was cancelled between two seeds; the positions completed before
\* it without error, in order.
BatchCancelled ==
    pc = "batch_analyze_neighborhoods raised" /\ raised = "KeyboardInterrupt"
Completed == Sorted((1 .. position) \ failures)

\* C28: when a batch run is cancelled between two seeds, the analyses of the
\* seeds completed before the cancellation are kept: the caller has one
\* analysis per completed seed, each one that an uncancelled run produces
\* for that seed, to turn into a group result and export.
C28_PartialResultsKept ==
    BatchCancelled =>
        /\ Len(result) = Len(Completed)
        /\ \A j \in 1 .. Len(result) : result[j] \in AnalysesOf(Completed[j])

\* Either main has ended, by returning or by raising.
EntryEnded ==
    pc \in {"main", "main raised", "analyzer main", "analyzer main raised"}

\* C29: in both entry points the connection opened at construction is
\* eventually closed, exactly once, on every path out of main (completion,
\* the early returns, an error raised while analysing or scoring): it is
\* open while main runs, closed once when main has ended, main ends, and
\* nothing is done, no query issued, after the close.
C29_ClosedOnceOnEveryPath ==
    /\ [](IF EntryEnded THEN closed = 1 ELSE closed = 0)
    /\ [][closed = 0]_vars
    /\ <>(closed = 1)

\* C29's case: the analyzer's main has raised after analysing uids, and the
\* driver is closed.
C29_Witness ==
    /\ pc = "analyzer main raised"
    /\ batch_analyses # <<>>
    /\ failures # {}
    /\ closed = 1

\* The four operations on a group, and what the operation that ran last
\* gives on the group as it is now.
GroupOperations ==
    {"get_avg_anomaly_nodes_by_hop", "get_type_distribution_by_hop",
     "get_uid_association_distribution_by_hop", "get_isolated_blacklist_stats"}
ResultOnGroup ==
    CASE pc = "get_avg_anomaly_nodes_by_hop" ->
            AvgAnomalyNodesByHop(uid_analyses)
      [] pc = "get_type_distribution_by_hop" ->
            TypeDistributionByHop(uid_analyses)
      [] pc = "get_uid_association_distribution_by_hop" ->
            UidAssociationDistributionByHop(uid_analyses)
      [] pc = "get_isolated_blacklist_stats" ->
            IsolatedBlacklistStats(uid_analyses, arguments[1])

\* C30: every operation on a group leaves the group's uid_analyses and the
\* HopAnalysis in them unchanged, so that calling any of them again, in any
\* order, returns a result equal to the first call's: no step changes
\* uid_analyses, the operation called twice in a row returns the same, and
\* what an operation returned is what it returns on the group as it is.
C30_GroupOperationsReadOnly ==
    /\ [][uid_analyses' = uid_analyses]_vars
    /\ [][pc' \in GroupOperations /\ pc' = pc /\ arguments' = arguments
            => result' = result]_<<pc, arguments, result>>
    /\ [](pc \in GroupOperations /\ raised = "none"
            => result = ResultOnGroup)

\* C30's case: the isolation statistics of a group of three with a
\* blacklisted member below the threshold and one above it.
C30_Witness ==
    /\ pc = "get_isolated_blacklist_stats"
    /\ Len(uid_analyses) = 3
    /\ result.total_blacklist_uids >= 2
    /\ result.isolated_blacklist_uids >= 1
    /\ result.isolated_blacklist_uids < result.total_blacklist_uids

====
